---- MODULE Spec2Model ----
(***************************************************************************)
(* The per-device event pipeline of src/src/evdev.c: the pending-event     *)
(* state machine and its flush, the key/button press counting, the seat    *)
(* slot allocator shared by the devices of a seat, and device removal.     *)
(***************************************************************************)
EXTENDS Integers, Sequences, FiniteSets, TLC

(* ---------------------------------------------------------------------- *)
(* Kernel event types and codes used by the code (linux/input.h values).  *)
(* ---------------------------------------------------------------------- *)
EV_SYN == 0
EV_KEY == 1
EV_REL == 2
EV_ABS == 3
SYN_REPORT == 0
REL_X == 0
REL_Y == 1
REL_HWHEEL == 6
REL_WHEEL == 8
DEFAULT_AXIS_STEP_DISTANCE == 10
ABS_X == 0
ABS_Y == 1
ABS_MT_SLOT == 47
ABS_MT_POSITION_X == 53
ABS_MT_POSITION_Y == 54
ABS_MT_TRACKING_ID == 57
KEY_ESC == 1
KEY_MICMUTE == 248
BTN_MISC == 256
BTN_TOUCH == 330
BTN_GEAR_UP == 337
KEY_OK == 352
KEY_LIGHTS_TOGGLE == 542
BTN_DPAD_UP == 544
BTN_TRIGGER_HAPPY40 == 743
KEY_MAX == 767
KEY_CNT == 768
BTN_TOOL_PEN == 320
BTN_TOOL_FINGER == 325

(* Two codes the devices of the model report besides BTN_TOUCH and        *)
(* KEY_MAX: one of the KEY class and one of the BUTTON class.             *)
KEY_A == 30
BTN_LEFT == 272

(* seat->slot_map is a 32-bit word: ffs(~slot_map) looks at 32 bits.      *)
SlotMapBits == 32

(* ---------------------------------------------------------------------- *)
(* Bounds of the model.                                                   *)
(* ---------------------------------------------------------------------- *)
(* key_count[c] is not raised above this by the events fed to a device.   *)
MaxKeyCount == 2
(* |rel.dx| and |rel.dy| are not driven above this between two flushes.   *)
MaxRel == 1
(* Number of slots of the multi-touch device (ABS_MT_SLOT maximum + 1).   *)
NumSlots == 2

PendingKinds ==
    { "EVDEV_NONE", "EVDEV_RELATIVE_MOTION", "EVDEV_ABSOLUTE_MOTION",
      "EVDEV_ABSOLUTE_MT_DOWN", "EVDEV_ABSOLUTE_MT_MOTION",
      "EVDEV_ABSOLUTE_MT_UP", "EVDEV_ABSOLUTE_TOUCH_DOWN",
      "EVDEV_ABSOLUTE_TOUCH_UP" }

EVDEV_DEVICE_POINTER == "POINTER"
EVDEV_DEVICE_KEYBOARD == "KEYBOARD"
EVDEV_DEVICE_TOUCH == "TOUCH"

LIBINPUT_KEY_STATE_RELEASED == 0
LIBINPUT_KEY_STATE_PRESSED == 1

VARIABLES
    device,       \* device id -> struct evdev_device
    slot_map,     \* seat->slot_map, as the set of its set bits
    foreign,      \* the bits of slot_map held by other devices of the seat
    emitted,      \* what the last operation emitted (notifications), in order
    last,         \* the last operation: what it was and on which device
    key_balance,  \* per device and code: PRESSED minus RELEASED notifications
    frame_touch,  \* per device: a touch notification since the last SYN_REPORT
    suppressed    \* per device and contact: its touch-down found no seat slot

vars == <<device, slot_map, foreign, emitted, last, key_balance, frame_touch,
          suppressed>>

Min(S) == CHOOSE m \in S : \A n \in S : m <= n

(* ---------------------------------------------------------------------- *)
(* Key bookkeeping.                                                       *)
(* ---------------------------------------------------------------------- *)
set_key_down(dev, code, pressed) ==
    [dev EXCEPT !.key_mask = IF pressed # 0 THEN @ \cup {code} ELSE @ \ {code}]

(* A test of the press count where the code tests the bitmap.             *)
is_key_down_by_count(dev, code) == dev.key_count[code] > 0

is_key_down(dev, code) == code \in dev.key_mask

get_key_down_count(dev, code) == dev.key_count[code]

(* The two assertions of update_key_down_count; a step that would fail    *)
(* one of them records it in the device's assert_failed field.            *)
update_key_down_count_asserts(dev, code, pressed) ==
    /\ code >= 0 /\ code < KEY_CNT
    /\ (pressed = 0 => dev.key_count[code] > 0)

update_key_down_count(dev, code, pressed) ==
    [dev EXCEPT
       !.key_count[code] = IF pressed # 0 THEN @ + 1 ELSE @ - 1,
       !.assert_failed = @ \/ ~update_key_down_count_asserts(dev, code, pressed)]

key_notification(kind, code, state) ==
    [kind |-> kind, code |-> code, state |-> state]

(* s is the state an operation works on: the device (dev), the seat's     *)
(* slot map (map), the notifications emitted so far (out), the diagnostics *)
(* logged so far (log) and the pending kind a flush handled (flushed).    *)
(* Level-triggered: PRESSED on every press that leaves the count >= 1.    *)
evdev_keyboard_notify_key_level(s, key, state) ==
    LET dev == [s.dev EXCEPT !.key_count[key] = IF state # 0 THEN @ + 1 ELSE @ - 1]
        down_count == dev.key_count[key]
    IN  IF \/ (state = LIBINPUT_KEY_STATE_PRESSED /\ down_count >= 1)
           \/ (state = LIBINPUT_KEY_STATE_RELEASED /\ down_count = 0)
        THEN [s EXCEPT !.dev = dev,
                       !.out = Append(@, [kind |-> "keyboard_key", code |-> key,
                                          state |-> state])]
        ELSE [s EXCEPT !.dev = dev]

evdev_keyboard_notify_key(s, key, state) ==
    LET dev == update_key_down_count(s.dev, key, state)
        down_count == dev.key_count[key]
    IN  IF \/ (state = LIBINPUT_KEY_STATE_PRESSED /\ down_count = 1)
           \/ (state = LIBINPUT_KEY_STATE_RELEASED /\ down_count = 0)
        THEN [s EXCEPT !.dev = dev,
                       !.out = Append(@, key_notification("keyboard_key", key, state))]
        ELSE [s EXCEPT !.dev = dev]

(* A notification for every call, whatever the count.                     *)
evdev_pointer_notify_button_always(s, button, state) ==
    [s EXCEPT !.dev.key_count[button] = IF state # 0 THEN @ + 1 ELSE @ - 1,
              !.out = Append(@, [kind |-> "pointer_button", code |-> button,
                                 state |-> state])]

evdev_pointer_notify_button(s, button, state) ==
    LET dev == update_key_down_count(s.dev, button, state)
        down_count == dev.key_count[button]
    IN  IF \/ (state = LIBINPUT_KEY_STATE_PRESSED /\ down_count = 1)
           \/ (state = LIBINPUT_KEY_STATE_RELEASED /\ down_count = 0)
        THEN [s EXCEPT !.dev = dev,
                       !.out = Append(@, key_notification("pointer_button", button, state))]
        ELSE [s EXCEPT !.dev = dev]

(* ---------------------------------------------------------------------- *)
(* Calibration of absolute coordinates.                                   *)
(* ---------------------------------------------------------------------- *)
(* The first two rows of the 3x3 matrix applied to (x, y, 1).             *)
matrix_mult_vec(m, x, y) ==
    << m[1] * x + m[2] * y + m[3], m[4] * x + m[5] * y + m[6] >>

(* A transform that applies the calibration matrix twice.                 *)
transform_absolute_twice(dev, x, y) ==
    IF ~dev.abs.apply_calibration
    THEN << x, y >>
    ELSE LET once == matrix_mult_vec(dev.abs.calibration, x, y)
         IN  matrix_mult_vec(dev.abs.calibration, once[1], once[2])

transform_absolute(dev, x, y) ==
    IF ~dev.abs.apply_calibration
    THEN << x, y >>
    ELSE matrix_mult_vec(dev.abs.calibration, x, y)

(* The acceleration filter is a collaborator outside the repository's     *)
(* sources; it is taken as the identity on (dx, dy).                      *)
filter_dispatch(motion) == motion

(* ---------------------------------------------------------------------- *)
(* The seat's slot allocator: ffs(~seat->slot_map) - 1.                   *)
(* ---------------------------------------------------------------------- *)
ffs_clear_bit(map) ==
    LET clear == (0 .. SlotMapBits - 1) \ map
    IN  IF clear = {} THEN -1 ELSE Min(clear)

touch_notification(kind, slot, seat_slot, xy) ==
    [kind |-> kind, slot |-> slot, seat_slot |-> seat_slot,
     x |-> xy[1], y |-> xy[2]]

touch_up_notification(slot, seat_slot) ==
    [kind |-> "touch_up", slot |-> slot, seat_slot |-> seat_slot]

(* ---------------------------------------------------------------------- *)
(* evdev_flush_pending_event, one operator per case of its switch.        *)
(* ---------------------------------------------------------------------- *)
flush_relative_motion(s) ==
    LET motion == filter_dispatch([dx |-> s.dev.rel.dx, dy |-> s.dev.rel.dy])
        cleared == [s EXCEPT !.dev.rel = [dx |-> 0, dy |-> 0]]
    IN  IF motion.dx = 0 /\ motion.dy = 0
        THEN cleared
        ELSE [cleared EXCEPT !.out = Append(@,
                 [kind |-> "pointer_motion", dx |-> motion.dx, dy |-> motion.dy])]

(* A down that does not look whether the slot already holds a seat slot.  *)
flush_mt_down_again(s) ==
    LET slot == s.dev.mt.slot
        seat_slot == ffs_clear_bit(s.map)
    IN  IF EVDEV_DEVICE_TOUCH \notin s.dev.seat_caps THEN s
        ELSE IF seat_slot = -1
        THEN [s EXCEPT !.dev.mt.slots[slot].seat_slot = seat_slot]
        ELSE [s EXCEPT
                !.dev.mt.slots[slot].seat_slot = seat_slot,
                !.map = @ \cup {seat_slot},
                !.out = Append(@, touch_notification("touch_down", slot, seat_slot,
                           transform_absolute(s.dev, s.dev.mt.slots[slot].x,
                                              s.dev.mt.slots[slot].y)))]

flush_mt_down(s) ==
    LET slot == s.dev.mt.slot
        seat_slot == ffs_clear_bit(s.map)
    IN  IF EVDEV_DEVICE_TOUCH \notin s.dev.seat_caps THEN s
        ELSE IF s.dev.mt.slots[slot].seat_slot # -1
        THEN [s EXCEPT !.log = Append(@, "log_bug_kernel")]
        ELSE IF seat_slot = -1
        THEN [s EXCEPT !.dev.mt.slots[slot].seat_slot = seat_slot]
        ELSE [s EXCEPT
                !.dev.mt.slots[slot].seat_slot = seat_slot,
                !.map = @ \cup {seat_slot},
                !.out = Append(@, touch_notification("touch_down", slot, seat_slot,
                           transform_absolute(s.dev, s.dev.mt.slots[slot].x,
                                              s.dev.mt.slots[slot].y)))]

flush_mt_motion(s) ==
    LET slot == s.dev.mt.slot
        seat_slot == s.dev.mt.slots[slot].seat_slot
    IN  IF EVDEV_DEVICE_TOUCH \notin s.dev.seat_caps THEN s
        ELSE IF seat_slot = -1 THEN s
        ELSE [s EXCEPT
                !.out = Append(@, touch_notification("touch_motion", slot, seat_slot,
                           transform_absolute(s.dev, s.dev.mt.slots[slot].x,
                                              s.dev.mt.slots[slot].y)))]

(* An up that forgets to clear the seat slot's bit.                       *)
flush_mt_up_keeps_bit(s) ==
    LET slot == s.dev.mt.slot
        seat_slot == s.dev.mt.slots[slot].seat_slot
    IN  IF EVDEV_DEVICE_TOUCH \notin s.dev.seat_caps \/ seat_slot = -1 THEN s
        ELSE [s EXCEPT
                !.dev.mt.slots[slot].seat_slot = -1,
                !.out = Append(@, [kind |-> "touch_up", slot |-> slot,
                                   seat_slot |-> seat_slot])]

(* An up that notifies and leaves the seat slot with the contact.         *)
flush_mt_up_keeps_slot(s) ==
    LET slot == s.dev.mt.slot
        seat_slot == s.dev.mt.slots[slot].seat_slot
    IN  IF EVDEV_DEVICE_TOUCH \notin s.dev.seat_caps \/ seat_slot = -1 THEN s
        ELSE [s EXCEPT
                !.map = @ \ {seat_slot},
                !.out = Append(@, touch_up_notification(slot, seat_slot))]

flush_mt_up(s) ==
    LET slot == s.dev.mt.slot
        seat_slot == s.dev.mt.slots[slot].seat_slot
    IN  IF EVDEV_DEVICE_TOUCH \notin s.dev.seat_caps THEN s
        ELSE IF seat_slot = -1
        THEN [s EXCEPT !.dev.mt.slots[slot].seat_slot = -1]
        ELSE [s EXCEPT
                !.dev.mt.slots[slot].seat_slot = -1,
                !.map = @ \ {seat_slot},
                !.out = Append(@, touch_up_notification(slot, seat_slot))]

(* A down that forgets to set the allocated bit in the slot map.          *)
flush_touch_down_no_mark(s) ==
    LET seat_slot == ffs_clear_bit(s.map)
    IN  IF EVDEV_DEVICE_TOUCH \notin s.dev.seat_caps \/ s.dev.abs.seat_slot # -1
           \/ seat_slot = -1
        THEN s
        ELSE [s EXCEPT
                !.dev.abs.seat_slot = seat_slot,
                !.out = Append(@, [kind |-> "touch_down", slot |-> -1,
                                   seat_slot |-> seat_slot,
                                   x |-> s.dev.abs.x, y |-> s.dev.abs.y])]

flush_touch_down(s) ==
    LET seat_slot == ffs_clear_bit(s.map)
    IN  IF EVDEV_DEVICE_TOUCH \notin s.dev.seat_caps THEN s
        ELSE IF s.dev.abs.seat_slot # -1
        THEN [s EXCEPT !.log = Append(@, "log_bug_kernel")]
        ELSE IF seat_slot = -1
        THEN [s EXCEPT !.dev.abs.seat_slot = seat_slot]
        ELSE [s EXCEPT
                !.dev.abs.seat_slot = seat_slot,
                !.map = @ \cup {seat_slot},
                !.out = Append(@, touch_notification("touch_down", -1, seat_slot,
                           transform_absolute(s.dev, s.dev.abs.x, s.dev.abs.y)))]

(* A motion flush that reports the raw coordinates.                       *)
flush_absolute_motion_raw(s) ==
    LET xy == << s.dev.abs.x, s.dev.abs.y >>
        seat_slot == s.dev.abs.seat_slot
    IN  IF EVDEV_DEVICE_TOUCH \in s.dev.seat_caps
        THEN IF seat_slot = -1 THEN s
             ELSE [s EXCEPT !.out = Append(@,
                      touch_notification("touch_motion", -1, seat_slot, xy))]
        ELSE IF EVDEV_DEVICE_POINTER \in s.dev.seat_caps
        THEN [s EXCEPT !.out = Append(@,
                 [kind |-> "pointer_motion_absolute", x |-> xy[1], y |-> xy[2]])]
        ELSE s

flush_absolute_motion(s) ==
    LET xy == transform_absolute(s.dev, s.dev.abs.x, s.dev.abs.y)
        seat_slot == s.dev.abs.seat_slot
    IN  IF EVDEV_DEVICE_TOUCH \in s.dev.seat_caps
        THEN IF seat_slot = -1 THEN s
             ELSE [s EXCEPT !.out = Append(@,
                      touch_notification("touch_motion", -1, seat_slot, xy))]
        ELSE IF EVDEV_DEVICE_POINTER \in s.dev.seat_caps
        THEN [s EXCEPT !.out = Append(@,
                 [kind |-> "pointer_motion_absolute", x |-> xy[1], y |-> xy[2]])]
        ELSE s

flush_touch_up(s) ==
    LET seat_slot == s.dev.abs.seat_slot
    IN  IF EVDEV_DEVICE_TOUCH \notin s.dev.seat_caps THEN s
        ELSE IF seat_slot = -1
        THEN [s EXCEPT !.dev.abs.seat_slot = -1]
        ELSE [s EXCEPT
                !.dev.abs.seat_slot = -1,
                !.map = @ \ {seat_slot},
                !.out = Append(@, touch_up_notification(-1, seat_slot))]

flush_switch(s) ==
    LET kind == s.dev.pending_event
    IN  CASE kind = "EVDEV_RELATIVE_MOTION" -> flush_relative_motion(s)
          [] kind = "EVDEV_ABSOLUTE_MT_DOWN" -> flush_mt_down(s)
          [] kind = "EVDEV_ABSOLUTE_MT_MOTION" -> flush_mt_motion(s)
          [] kind = "EVDEV_ABSOLUTE_MT_UP" -> flush_mt_up(s)
          [] kind = "EVDEV_ABSOLUTE_TOUCH_DOWN" -> flush_touch_down(s)
          [] kind = "EVDEV_ABSOLUTE_MOTION" -> flush_absolute_motion(s)
          [] kind = "EVDEV_ABSOLUTE_TOUCH_UP" -> flush_touch_up(s)

(* A flush that returns from the switch, instead of breaking out of it,  *)
(* in the cases that emit nothing.                                        *)
evdev_flush_pending_event_returns(s) ==
    IF s.dev.pending_event = "EVDEV_NONE"
    THEN s
    ELSE IF flush_switch(s).out = s.out
    THEN [flush_switch(s) EXCEPT
            !.flushed = [kind |-> s.dev.pending_event, slot |-> s.dev.mt.slot]]
    ELSE [flush_switch(s) EXCEPT
            !.dev.pending_event = "EVDEV_NONE",
            !.flushed = [kind |-> s.dev.pending_event, slot |-> s.dev.mt.slot]]

(* The whole function: EVDEV_NONE returns at once, every other case       *)
(* breaks out of the switch to the reset of pending_event. flushed        *)
(* records which pending kind the flush acted on and for which slot, for  *)
(* the observers of a step.                                               *)
evdev_flush_pending_event(s) ==
    IF s.dev.pending_event = "EVDEV_NONE"
    THEN s
    ELSE [flush_switch(s) EXCEPT
            !.dev.pending_event = "EVDEV_NONE",
            !.flushed = [kind |-> s.dev.pending_event, slot |-> s.dev.mt.slot]]

(* ---------------------------------------------------------------------- *)
(* The handlers of the fallback dispatcher. e is a raw event              *)
(* [type, code, value].                                                   *)
(* ---------------------------------------------------------------------- *)
get_key_type(code) ==
    IF code = BTN_TOUCH THEN "EVDEV_KEY_TYPE_NONE"
    ELSE IF code >= KEY_ESC /\ code <= KEY_MICMUTE THEN "EVDEV_KEY_TYPE_KEY"
    ELSE IF code >= BTN_MISC /\ code <= BTN_GEAR_UP THEN "EVDEV_KEY_TYPE_BUTTON"
    ELSE IF code >= KEY_OK /\ code <= KEY_LIGHTS_TOGGLE THEN "EVDEV_KEY_TYPE_KEY"
    ELSE IF code >= BTN_DPAD_UP /\ code <= BTN_TRIGGER_HAPPY40
    THEN "EVDEV_KEY_TYPE_BUTTON"
    ELSE "EVDEV_KEY_TYPE_NONE"

(* A touch button that overwrites whatever is pending.                    *)
evdev_process_touch_button_overwrites(s, value) ==
    [s EXCEPT !.dev.pending_event = IF value # 0
                                    THEN "EVDEV_ABSOLUTE_TOUCH_DOWN"
                                    ELSE "EVDEV_ABSOLUTE_TOUCH_UP"]

evdev_process_touch_button(s, value) ==
    LET f == IF s.dev.pending_event \notin {"EVDEV_NONE", "EVDEV_ABSOLUTE_MOTION"}
             THEN evdev_flush_pending_event(s)
             ELSE s
    IN  [f EXCEPT !.dev.pending_event = IF value # 0
                                        THEN "EVDEV_ABSOLUTE_TOUCH_DOWN"
                                        ELSE "EVDEV_ABSOLUTE_TOUCH_UP"]

(* The key handling without the check for releases of keys that are not  *)
(* down.                                                                  *)
process_key_code_unguarded(f, e) ==
    LET type == get_key_type(e.code)
        state == IF e.value # 0 THEN LIBINPUT_KEY_STATE_PRESSED
                 ELSE LIBINPUT_KEY_STATE_RELEASED
        marked == [f EXCEPT !.dev = set_key_down(f.dev, e.code, e.value)]
    IN  CASE type = "EVDEV_KEY_TYPE_NONE" -> marked
          [] type = "EVDEV_KEY_TYPE_KEY" ->
               evdev_keyboard_notify_key(marked, e.code, state)
          [] type = "EVDEV_KEY_TYPE_BUTTON" ->
               evdev_pointer_notify_button(marked, e.code, state)

(* The part of evdev_process_key after the pending event is flushed.      *)
process_key_code(f, e) ==
    LET type == get_key_type(e.code)
        state == IF e.value # 0 THEN LIBINPUT_KEY_STATE_PRESSED
                 ELSE LIBINPUT_KEY_STATE_RELEASED
        marked == [f EXCEPT !.dev = set_key_down(f.dev, e.code, e.value)]
    IN  IF e.value = 0 /\ type # "EVDEV_KEY_TYPE_NONE" /\ ~is_key_down(f.dev, e.code)
        THEN f
        ELSE CASE type = "EVDEV_KEY_TYPE_NONE" -> marked
               [] type = "EVDEV_KEY_TYPE_KEY" ->
                    evdev_keyboard_notify_key(marked, e.code, state)
               [] type = "EVDEV_KEY_TYPE_BUTTON" ->
                    evdev_pointer_notify_button(marked, e.code, state)

(* The key handler without the check for the kernel's auto-repeat.       *)
evdev_process_key_repeats(s, e) ==
    IF e.code = BTN_TOUCH
    THEN IF ~s.dev.is_mt THEN evdev_process_touch_button(s, e.value) ELSE s
    ELSE process_key_code(evdev_flush_pending_event(s), e)

evdev_process_key(s, e) ==
    IF e.value = 2 THEN s
    ELSE IF e.code = BTN_TOUCH
    THEN IF ~s.dev.is_mt THEN evdev_process_touch_button(s, e.value) ELSE s
    ELSE process_key_code(evdev_flush_pending_event(s), e)

(* A touch handler that moves the slot cursor before it flushes.         *)
evdev_process_touch_moves_first(s, e) ==
    CASE e.code = ABS_MT_SLOT ->
           evdev_flush_pending_event([s EXCEPT !.dev.mt.slot = e.value])
      [] e.code = ABS_MT_TRACKING_ID ->
           LET f == IF s.dev.pending_event \notin
                         {"EVDEV_NONE", "EVDEV_ABSOLUTE_MT_MOTION"}
                    THEN evdev_flush_pending_event(s)
                    ELSE s
           IN  [f EXCEPT !.dev.pending_event = IF e.value >= 0
                                               THEN "EVDEV_ABSOLUTE_MT_DOWN"
                                               ELSE "EVDEV_ABSOLUTE_MT_UP"]
      [] e.code = ABS_MT_POSITION_X ->
           [s EXCEPT !.dev.mt.slots[s.dev.mt.slot].x = e.value,
                     !.dev.pending_event = IF @ = "EVDEV_NONE"
                                           THEN "EVDEV_ABSOLUTE_MT_MOTION" ELSE @]
      [] e.code = ABS_MT_POSITION_Y ->
           [s EXCEPT !.dev.mt.slots[s.dev.mt.slot].y = e.value,
                     !.dev.pending_event = IF @ = "EVDEV_NONE"
                                           THEN "EVDEV_ABSOLUTE_MT_MOTION" ELSE @]
      [] OTHER -> s

evdev_process_touch(s, e) ==
    CASE e.code = ABS_MT_SLOT ->
           [evdev_flush_pending_event(s) EXCEPT !.dev.mt.slot = e.value]
      [] e.code = ABS_MT_TRACKING_ID ->
           LET f == IF s.dev.pending_event \notin
                         {"EVDEV_NONE", "EVDEV_ABSOLUTE_MT_MOTION"}
                    THEN evdev_flush_pending_event(s)
                    ELSE s
           IN  [f EXCEPT !.dev.pending_event = IF e.value >= 0
                                               THEN "EVDEV_ABSOLUTE_MT_DOWN"
                                               ELSE "EVDEV_ABSOLUTE_MT_UP"]
      [] e.code = ABS_MT_POSITION_X ->
           [s EXCEPT !.dev.mt.slots[s.dev.mt.slot].x = e.value,
                     !.dev.pending_event = IF @ = "EVDEV_NONE"
                                           THEN "EVDEV_ABSOLUTE_MT_MOTION" ELSE @]
      [] e.code = ABS_MT_POSITION_Y ->
           [s EXCEPT !.dev.mt.slots[s.dev.mt.slot].y = e.value,
                     !.dev.pending_event = IF @ = "EVDEV_NONE"
                                           THEN "EVDEV_ABSOLUTE_MT_MOTION" ELSE @]
      [] OTHER -> s

evdev_process_absolute_motion(s, e) ==
    CASE e.code = ABS_X ->
           [s EXCEPT !.dev.abs.x = e.value,
                     !.dev.pending_event = IF @ = "EVDEV_NONE"
                                           THEN "EVDEV_ABSOLUTE_MOTION" ELSE @]
      [] e.code = ABS_Y ->
           [s EXCEPT !.dev.abs.y = e.value,
                     !.dev.pending_event = IF @ = "EVDEV_NONE"
                                           THEN "EVDEV_ABSOLUTE_MOTION" ELSE @]
      [] OTHER -> s

evdev_process_absolute(s, e) ==
    IF s.dev.is_mt THEN evdev_process_touch(s, e)
    ELSE evdev_process_absolute_motion(s, e)

(* A relative handler that scrolls horizontally for every REL_HWHEEL     *)
(* value.                                                                 *)
evdev_process_relative_any_hwheel(s, e) ==
    LET g == evdev_flush_pending_event(s)
    IN  CASE e.code \in { REL_X, REL_Y } ->
               [s EXCEPT !.dev.rel.dx = @ + (IF e.code = REL_X THEN e.value ELSE 0),
                         !.dev.rel.dy = @ + (IF e.code = REL_Y THEN e.value ELSE 0),
                         !.dev.pending_event = "EVDEV_RELATIVE_MOTION"]
          [] e.code = REL_WHEEL ->
               [g EXCEPT !.out = Append(@,
                   [kind |-> "pointer_axis",
                    axis |-> "LIBINPUT_POINTER_AXIS_SCROLL_VERTICAL",
                    value |-> -1 * e.value * DEFAULT_AXIS_STEP_DISTANCE])]
          [] OTHER ->
               [g EXCEPT !.out = Append(@,
                   [kind |-> "pointer_axis",
                    axis |-> "LIBINPUT_POINTER_AXIS_SCROLL_HORIZONTAL",
                    value |-> e.value * DEFAULT_AXIS_STEP_DISTANCE])]

(* A relative handler that flushes before every REL_X and REL_Y, so that  *)
(* no two of them coalesce.                                               *)
evdev_process_relative_uncoalesced(s, e) ==
    LET g == evdev_flush_pending_event(s)
    IN  CASE e.code = REL_X ->
               [g EXCEPT !.dev.rel.dx = @ + e.value,
                         !.dev.pending_event = "EVDEV_RELATIVE_MOTION"]
          [] e.code = REL_Y ->
               [g EXCEPT !.dev.rel.dy = @ + e.value,
                         !.dev.pending_event = "EVDEV_RELATIVE_MOTION"]
          [] OTHER -> g

evdev_process_relative(s, e) ==
    LET f == IF s.dev.pending_event # "EVDEV_RELATIVE_MOTION"
             THEN evdev_flush_pending_event(s)
             ELSE s
        g == evdev_flush_pending_event(s)
    IN  CASE e.code = REL_X ->
               [f EXCEPT !.dev.rel.dx = @ + e.value,
                         !.dev.pending_event = "EVDEV_RELATIVE_MOTION"]
          [] e.code = REL_Y ->
               [f EXCEPT !.dev.rel.dy = @ + e.value,
                         !.dev.pending_event = "EVDEV_RELATIVE_MOTION"]
          [] e.code = REL_WHEEL ->
               [g EXCEPT !.out = Append(@,
                   [kind |-> "pointer_axis",
                    axis |-> "LIBINPUT_POINTER_AXIS_SCROLL_VERTICAL",
                    value |-> -1 * e.value * DEFAULT_AXIS_STEP_DISTANCE])]
          [] e.code = REL_HWHEEL ->
               IF e.value \in {-1, 1}
               THEN [g EXCEPT !.out = Append(@,
                       [kind |-> "pointer_axis",
                        axis |-> "LIBINPUT_POINTER_AXIS_SCROLL_HORIZONTAL",
                        value |-> e.value * DEFAULT_AXIS_STEP_DISTANCE])]
               ELSE g
          [] OTHER -> s

(* A frame test that does not look at the capabilities.                  *)
evdev_need_touch_frame_any(dev) ==
    dev.pending_event \notin {"EVDEV_NONE", "EVDEV_RELATIVE_MOTION"}

evdev_need_touch_frame(dev) ==
    /\ EVDEV_DEVICE_TOUCH \in dev.seat_caps
    /\ dev.pending_event \notin {"EVDEV_NONE", "EVDEV_RELATIVE_MOTION"}

fallback_process(s, e) ==
    CASE e.type = EV_REL -> evdev_process_relative(s, e)
      [] e.type = EV_ABS -> evdev_process_absolute(s, e)
      [] e.type = EV_KEY -> evdev_process_key(s, e)
      [] e.type = EV_SYN ->
           LET need_frame == evdev_need_touch_frame(s.dev)
               f == evdev_flush_pending_event(s)
           IN  IF need_frame
               THEN [f EXCEPT !.out = Append(@, [kind |-> "touch_frame"])]
               ELSE f
      [] OTHER -> s

(* ---------------------------------------------------------------------- *)
(* Device creation. hw is what libevdev reports of the kernel device: the *)
(* event codes it declares, its properties and its slot range.            *)
(* ---------------------------------------------------------------------- *)
matrix_identity == << 1, 0, 0, 0, 1, 0, 0, 0, 1 >>

(* The sample of key codes the devices of the model may declare.          *)
KeyCodes == { KEY_A, BTN_LEFT, BTN_TOUCH, KEY_MAX }

evdev_configure_device(hw) ==
    LET has_abs == ABS_X \in hw.ev_abs \/ ABS_Y \in hw.ev_abs
        has_mt == ABS_MT_POSITION_X \in hw.ev_abs /\ ABS_MT_POSITION_Y \in hw.ev_abs
        has_rel == REL_X \in hw.ev_rel \/ REL_Y \in hw.ev_rel
        has_key == hw.ev_key # {}
        is_touchpad == /\ has_key
                       /\ ~hw.direct
                       /\ BTN_TOOL_FINGER \in hw.ev_key
                       /\ BTN_TOOL_PEN \notin hw.ev_key
                       /\ (has_abs \/ has_mt)
        has_keyboard ==
            \/ \E i \in hw.ev_key : i < KEY_MAX /\ get_key_type(i) = "EVDEV_KEY_TYPE_KEY"
            \/ hw.ev_led
        has_button ==
            \E i \in hw.ev_key : i < KEY_MAX /\ get_key_type(i) = "EVDEV_KEY_TYPE_BUTTON"
        has_touch == has_mt \/ BTN_TOUCH \in hw.ev_key
        mtdev == has_mt /\ ABS_MT_SLOT \notin hw.ev_abs
    IN  [ is_mt |-> has_mt,
          mtdev |-> mtdev,
          dispatch |-> IF is_touchpad THEN "touchpad" ELSE "NULL",
          mt |-> [ slot |-> IF has_mt THEN hw.active_slot ELSE 0,
                   slots |-> IF has_mt
                             THEN [ i \in 0 .. hw.num_slots - 1 |->
                                      [ x |-> 0, y |-> 0, seat_slot |-> -1 ] ]
                             ELSE << >> ],
          seat_caps |->
            IF is_touchpad THEN {}
            ELSE (IF (has_abs \/ has_rel) /\ has_button
                  THEN {EVDEV_DEVICE_POINTER} ELSE {})
                 \cup (IF has_keyboard THEN {EVDEV_DEVICE_KEYBOARD} ELSE {})
                 \cup (IF has_touch /\ ~has_button
                       THEN {EVDEV_DEVICE_TOUCH} ELSE {}) ]

(* A configuration that grants the touch capability whatever the         *)
(* buttons.                                                               *)
evdev_device_create_touch_despite_buttons(hw) ==
    LET c == evdev_configure_device(hw)
        has_touch == c.is_mt \/ BTN_TOUCH \in hw.ev_key
    IN  [ hw |-> hw,
          seat_caps |-> c.seat_caps
                        \cup (IF has_touch THEN {EVDEV_DEVICE_TOUCH} ELSE {}),
          is_mt |-> c.is_mt,
          mtdev |-> c.mtdev,
          dispatch |-> IF c.dispatch = "NULL" THEN "fallback" ELSE c.dispatch,
          rel |-> [ dx |-> 0, dy |-> 0 ],
          abs |-> [ x |-> 0, y |-> 0, seat_slot |-> -1,
                    apply_calibration |-> FALSE,
                    calibration |-> matrix_identity,
                    usermatrix |-> matrix_identity,
                    default_calibration |-> matrix_identity ],
          mt |-> c.mt,
          pending_event |-> "EVDEV_NONE",
          key_mask |-> {},
          key_count |-> [ code \in KeyCodes |-> 0 ],
          assert_failed |-> FALSE,
          source |-> TRUE,
          fd |-> 0,
          listed |-> TRUE ]

(* The device evdev_device_create returns when every step succeeds.       *)
evdev_device_create(hw) ==
    LET c == evdev_configure_device(hw)
    IN  [ hw |-> hw,
          seat_caps |-> c.seat_caps,
          is_mt |-> c.is_mt,
          mtdev |-> c.mtdev,
          dispatch |-> IF c.dispatch = "NULL" THEN "fallback" ELSE c.dispatch,
          rel |-> [ dx |-> 0, dy |-> 0 ],
          abs |-> [ x |-> 0, y |-> 0, seat_slot |-> -1,
                    apply_calibration |-> FALSE,
                    calibration |-> matrix_identity,
                    usermatrix |-> matrix_identity,
                    default_calibration |-> matrix_identity ],
          mt |-> c.mt,
          pending_event |-> "EVDEV_NONE",
          key_mask |-> {},
          key_count |-> [ code \in KeyCodes |-> 0 ],
          assert_failed |-> FALSE,
          source |-> TRUE,
          fd |-> 0,
          listed |-> TRUE ]

(* ---------------------------------------------------------------------- *)
(* evdev_device_create with its failures. What a call leaves behind: the  *)
(* file descriptor, the references it took on the seat, the device        *)
(* object, its dispatcher and mtdev, the event source, the entry in the   *)
(* seat's device list and the device-added notification.                  *)
(* ---------------------------------------------------------------------- *)
NoEffects ==
    [ fd |-> "none", seat_refs |-> 0, allocated |-> FALSE, dispatch |-> FALSE,
      mtdev |-> FALSE, source |-> FALSE, listed |-> FALSE, added |-> FALSE ]

(* The calls of evdev_device_create and evdev_configure_device that can   *)
(* fail, in the order they are made.                                      *)
FailurePoints ==
    { "open_restricted", "zalloc", "libevdev_new_from_fd", "mtdev_new_open",
      "calloc", "evdev_mt_touchpad_create", "create_pointer_accelator_filter",
      "fallback_dispatch_create", "libinput_add_fd" }

(* The return value of evdev_configure_device when the call `fail` fails. *)
evdev_configure_device_rc(hw, fail) ==
    LET c == evdev_configure_device(hw)
    IN  IF c.mtdev /\ fail = "mtdev_new_open" THEN -1
        ELSE IF c.is_mt /\ fail = "calloc" THEN -1
        ELSE IF c.dispatch = "touchpad"
        THEN (IF fail = "evdev_mt_touchpad_create" THEN -1 ELSE 0)
        ELSE IF EVDEV_DEVICE_POINTER \in c.seat_caps
                /\ fail = "create_pointer_accelator_filter"
        THEN -1
        ELSE 0

evdev_device_destroy(env) ==
    [env EXCEPT !.dispatch = FALSE, !.seat_refs = @ - 1, !.allocated = FALSE]

evdev_device_create_call(hw, fail) ==
    LET c == evdev_configure_device(hw)
        opened == [NoEffects EXCEPT !.fd = "open"]
        inited == [opened EXCEPT !.allocated = TRUE, !.seat_refs = @ + 1]
        configured == [inited EXCEPT !.mtdev = c.mtdev /\ fail # "mtdev_new_open",
                                     !.dispatch = c.dispatch # "NULL"
                                                  /\ evdev_configure_device_rc(hw, fail) = 0]
        dispatched == [configured EXCEPT !.dispatch = TRUE]
        err(env, unhandled_device) ==
            [ result |-> IF unhandled_device THEN "EVDEV_UNHANDLED_DEVICE" ELSE "NULL",
              env |-> evdev_device_destroy([env EXCEPT !.fd = "closed"]) ]
    IN  IF fail = "open_restricted" THEN [ result |-> "NULL", env |-> NoEffects ]
        ELSE IF fail = "zalloc" THEN [ result |-> "NULL", env |-> opened ]
        ELSE IF fail = "libevdev_new_from_fd" THEN err(inited, FALSE)
        ELSE IF evdev_configure_device_rc(hw, fail) = -1 THEN err(configured, FALSE)
        ELSE IF c.seat_caps = {} THEN err(configured, TRUE)
        ELSE IF c.dispatch = "NULL" /\ fail = "fallback_dispatch_create"
        THEN err(configured, FALSE)
        ELSE IF fail = "libinput_add_fd" THEN err(dispatched, FALSE)
        ELSE [ result |-> "device",
               env |-> [dispatched EXCEPT !.source = TRUE, !.listed = TRUE,
                                          !.added = TRUE],
               device |-> evdev_device_create(hw) ]

(* ---------------------------------------------------------------------- *)
(* Calibration. A matrix is its nine entries, row by row; the six floats  *)
(* of the configuration interface are its first two rows. Entries are     *)
(* integers here.                                                         *)
(* ---------------------------------------------------------------------- *)
matrix_is_identity(m) == m = matrix_identity

matrix_from_farray6(f) == << f[1], f[2], f[3], f[4], f[5], f[6], 0, 0, 1 >>

matrix_to_farray6(m) == << m[1], m[2], m[3], m[4], m[5], m[6] >>

matrix_init_scale(sx, sy) == << sx, 0, 0, 0, sy, 0, 0, 0, 1 >>

matrix_init_translate(x, y) == << 1, 0, x, 0, 1, y, 0, 0, 1 >>

matrix_mult(m1, m2) ==
    [ i \in 1 .. 9 |->
        LET row == (i - 1) \div 3
            col == (i - 1) % 3
        IN  m1[3 * row + 1] * m2[col + 1]
            + m1[3 * row + 2] * m2[col + 4]
            + m1[3 * row + 3] * m2[col + 7] ]

(* absinfo->minimum of the position axes.                                 *)
AbsMinimum == 0

absinfo(hw) == [ minimum |-> AbsMinimum, maximum |-> hw.abs_max ]

(* A calibration that records the user matrix and leaves the flag and    *)
(* the effective matrix as they were.                                     *)
evdev_device_calibrate_keeps_flag(dev, calibration) ==
    [dev EXCEPT !.abs.usermatrix = matrix_from_farray6(calibration)]

(* The Normalize factor has the entries 1/sx, 1/sy, -min/sx and -min/sy;  *)
(* it is carried as sx*sy times itself and the common factor is divided   *)
(* out of the final product, which is exact when sx = sy.                 *)
evdev_device_calibrate(dev, calibration) ==
    LET transform == matrix_from_farray6(calibration)
        apply == ~matrix_is_identity(transform)
        ax == absinfo(dev.hw)
        ay == absinfo(dev.hw)
        sx == ax.maximum - ax.minimum + 1
        sy == ay.maximum - ay.minimum + 1
        unnormalize == matrix_mult(matrix_init_translate(ax.minimum, ay.minimum),
                                   matrix_init_scale(sx, sy))
        calibrated == matrix_mult(unnormalize, transform)
        normalize == matrix_mult(
                         matrix_init_translate(-ax.minimum * sy, -ay.minimum * sx),
                         matrix_init_scale(sy, sx))
        scaled == matrix_mult(calibrated,
                              [normalize EXCEPT ![9] = sx * sy])
    IN  IF ~apply
        THEN [dev EXCEPT !.abs.apply_calibration = FALSE,
                         !.abs.calibration = matrix_identity]
        ELSE [dev EXCEPT !.abs.apply_calibration = TRUE,
                         !.abs.usermatrix = matrix_from_farray6(calibration),
                         !.abs.calibration =
                             [ i \in 1 .. 9 |-> scaled[i] \div (sx * sy) ]]

(* A default calibration that is applied and not remembered.              *)
evdev_device_set_default_calibration_forgets(dev, calibration) ==
    evdev_device_calibrate(dev, calibration)

evdev_device_set_default_calibration(dev, calibration) ==
    evdev_device_calibrate(
        [dev EXCEPT !.abs.default_calibration = matrix_from_farray6(calibration)],
        calibration)

evdev_calibration_has_matrix(dev) ==
    { ABS_X, ABS_Y } \subseteq dev.hw.ev_abs
    \/ { ABS_MT_POSITION_X, ABS_MT_POSITION_Y } \subseteq dev.hw.ev_abs

evdev_calibration_set_matrix(dev, matrix) == evdev_device_calibrate(dev, matrix)

evdev_calibration_get_matrix(dev) ==
    [ matrix |-> matrix_to_farray6(dev.abs.usermatrix),
      ret |-> ~matrix_is_identity(dev.abs.usermatrix) ]

evdev_calibration_get_default_matrix(dev) ==
    [ matrix |-> matrix_to_farray6(dev.abs.default_calibration),
      ret |-> ~matrix_is_identity(dev.abs.default_calibration) ]

(* ---------------------------------------------------------------------- *)
(* Device removal.                                                        *)
(* ---------------------------------------------------------------------- *)
RECURSIVE CodesAscending(_)
CodesAscending(S) ==
    IF S = {} THEN << >> ELSE << Min(S) >> \o CodesAscending(S \ {Min(S)})

RECURSIVE release_codes(_, _)
release_codes(s, codes) ==
    IF codes = << >> THEN s
    ELSE LET code == Head(codes)
             type == get_key_type(code)
             n == IF get_key_down_count(s.dev, code) > 0
                  THEN CASE type = "EVDEV_KEY_TYPE_NONE" -> << >>
                         [] type = "EVDEV_KEY_TYPE_KEY" ->
                              << key_notification("keyboard_key", code,
                                                  LIBINPUT_KEY_STATE_RELEASED) >>
                         [] type = "EVDEV_KEY_TYPE_BUTTON" ->
                              << key_notification("pointer_button", code,
                                                  LIBINPUT_KEY_STATE_RELEASED) >>
                  ELSE << >>
         IN  release_codes([s EXCEPT !.out = @ \o n], Tail(codes))

(* A release loop that runs from the highest code down.                   *)
release_pressed_keys_descending(s, clock_ok) ==
    LET up == CodesAscending({c \in KeyCodes : c < KEY_CNT})
    IN  release_codes(s, [ i \in 1 .. Len(up) |-> up[Len(up) + 1 - i] ])

(* clock_ok: whether clock_gettime(CLOCK_MONOTONIC) succeeded. The loop   *)
(* over 0 .. KEY_CNT - 1 meets a nonzero count only at the codes of       *)
(* KeyCodes, in ascending order.                                          *)
release_pressed_keys(s, clock_ok) ==
    IF ~clock_ok
    THEN [s EXCEPT !.log = Append(@, "log_bug_libinput")]
    ELSE release_codes(s, CodesAscending({c \in KeyCodes : c < KEY_CNT}))

(* clock_gettime(CLOCK_MONOTONIC, &ts) with a valid ts does not fail.     *)
ClockResults == { TRUE }

evdev_device_remove(s, clock_ok) ==
    LET unsourced == [s EXCEPT !.out = IF s.dev.source
                                       THEN Append(@, [kind |-> "remove_source"])
                                       ELSE @]
        released == release_pressed_keys(unsourced, clock_ok)
    IN  [released EXCEPT !.dev.fd = -1,
                         !.dev.listed = FALSE,
                         !.out = Append(@, [kind |-> "device_removed"])]

(* ---------------------------------------------------------------------- *)
(* The devices of the model and the raw events the kernel sends for them. *)
(* ---------------------------------------------------------------------- *)
(* The touchscreen of test/litest-device-calibrated-touchscreen.c.        *)
HwTouchscreen ==
    [ ev_abs |-> { ABS_X, ABS_Y, ABS_MT_SLOT, ABS_MT_POSITION_X,
                   ABS_MT_POSITION_Y, ABS_MT_TRACKING_ID },
      ev_rel |-> {}, ev_key |-> { BTN_TOUCH }, ev_led |-> FALSE,
      direct |-> TRUE, num_slots |-> NumSlots, active_slot |-> 0,
      abs_max |-> 0 ]

(* A slotted multi-touch panel that reports nothing but its slots.        *)
HwTouchPanel ==
    [ ev_abs |-> { ABS_MT_SLOT, ABS_MT_POSITION_X,
                   ABS_MT_POSITION_Y, ABS_MT_TRACKING_ID },
      ev_rel |-> {}, ev_key |-> {}, ev_led |-> FALSE,
      direct |-> TRUE, num_slots |-> NumSlots, active_slot |-> 0,
      abs_max |-> 0 ]

HwSingleTouch ==
    [ ev_abs |-> { ABS_X, ABS_Y },
      ev_rel |-> {}, ev_key |-> { BTN_TOUCH }, ev_led |-> FALSE,
      direct |-> TRUE, num_slots |-> 0, active_slot |-> 0,
      abs_max |-> 0 ]

HwMouseKeyboard ==
    [ ev_abs |-> {},
      ev_rel |-> { REL_X, REL_Y }, ev_key |-> { KEY_A, BTN_LEFT, KEY_MAX },
      ev_led |-> FALSE,
      direct |-> FALSE, num_slots |-> 0, active_slot |-> 0,
      abs_max |-> 0 ]

RelVals == { -1, 1 }

(* Wheel clicks: one or two at a time, either way.                        *)
WheelVals == { -2, -1, 1, 2 }

RelValues(code) ==
    IF code \in { REL_WHEEL, REL_HWHEEL } THEN WheelVals ELSE RelVals

AbsValues(hw, code) ==
    CASE code = ABS_MT_SLOT -> 0 .. hw.num_slots - 1
      [] code = ABS_MT_TRACKING_ID -> { -1, 0 }
      [] OTHER -> 0 .. hw.abs_max

Events(hw) ==
    UNION { { [type |-> EV_REL, code |-> c, value |-> v] :
                v \in RelValues(c) } : c \in hw.ev_rel }
    \cup UNION { { [type |-> EV_ABS, code |-> c, value |-> v] :
                     v \in AbsValues(hw, c) } : c \in hw.ev_abs }
    \cup { [type |-> EV_KEY, code |-> c, value |-> v] :
             c \in hw.ev_key, v \in { 0, 1, 2 } }
    \cup { [type |-> EV_SYN, code |-> SYN_REPORT, value |-> 0] }

Abs(n) == IF n < 0 THEN -n ELSE n

(* The events the model feeds: those that keep the counters in bounds.    *)
WithinBounds(dev, e) ==
    /\ (e.type = EV_KEY /\ e.value = 1 /\ e.code # BTN_TOUCH)
          => dev.key_count[e.code] < MaxKeyCount
    /\ (e.type = EV_REL /\ e.code = REL_X) => Abs(dev.rel.dx + e.value) <= MaxRel
    /\ (e.type = EV_REL /\ e.code = REL_Y) => Abs(dev.rel.dy + e.value) <= MaxRel

Contacts(dev) == IF dev.is_mt THEN DOMAIN dev.mt.slots ELSE { -1 }

SeatSlot(dev, c) == IF c = -1 THEN dev.abs.seat_slot ELSE dev.mt.slots[c].seat_slot

TouchKinds == { "touch_down", "touch_motion", "touch_up" }

HasTouch(out) == \E i \in 1 .. Len(out) : out[i].kind \in TouchKinds

Count(out, kind, code, state) ==
    Cardinality({ i \in 1 .. Len(out) :
                    /\ out[i].kind = kind
                    /\ out[i].code = code
                    /\ out[i].state = state })

KeyKinds == { "keyboard_key", "pointer_button" }

KeyNotes(out, code, state) ==
    Cardinality({ i \in 1 .. Len(out) :
                    /\ out[i].kind \in KeyKinds
                    /\ out[i].code = code
                    /\ out[i].state = state })

NoFlush == [ kind |-> "EVDEV_NONE", slot |-> 0 ]

Start(dev) == [ dev |-> dev, map |-> slot_map, out |-> << >>, log |-> << >>,
                flushed |-> NoFlush ]

(* The contact a flush of a touch kind acted on.                          *)
FlushedContact(flushed) ==
    IF flushed.kind \in { "EVDEV_ABSOLUTE_TOUCH_DOWN", "EVDEV_ABSOLUTE_TOUCH_UP",
                          "EVDEV_ABSOLUTE_MOTION" }
    THEN -1 ELSE flushed.slot

Suppression(d, before, r) ==
    [ c \in Contacts(before) |->
        IF EVDEV_DEVICE_TOUCH \in before.seat_caps /\ c = FlushedContact(r.flushed)
        THEN CASE r.flushed.kind \in { "EVDEV_ABSOLUTE_MT_DOWN",
                                       "EVDEV_ABSOLUTE_TOUCH_DOWN" } ->
                    IF SeatSlot(before, c) = -1
                    THEN SeatSlot(r.dev, c) = -1
                    ELSE suppressed[d][c]
               [] r.flushed.kind \in { "EVDEV_ABSOLUTE_MT_UP",
                                       "EVDEV_ABSOLUTE_TOUCH_UP" } -> FALSE
               [] OTHER -> suppressed[d][c]
        ELSE suppressed[d][c] ]

KeyBalance(d, out) ==
    [ c \in KeyCodes |->
        key_balance[d][c] + KeyNotes(out, c, LIBINPUT_KEY_STATE_PRESSED)
                          - KeyNotes(out, c, LIBINPUT_KEY_STATE_RELEASED) ]

(* ---------------------------------------------------------------------- *)
(* Actions.                                                               *)
(* ---------------------------------------------------------------------- *)
(* evdev_process_event: one raw event of device d goes through the        *)
(* dispatcher.                                                            *)
Process(d, e) ==
    /\ device[d].listed
    /\ device[d].dispatch = "fallback"
    /\ WithinBounds(device[d], e)
    /\ LET r == fallback_process(Start(device[d]), e)
           touched == frame_touch[d] \/ HasTouch(r.out)
       IN  /\ device' = [device EXCEPT ![d] = r.dev]
           /\ slot_map' = r.map
           /\ emitted' = r.out
           /\ last' = [ op |-> "process", dev |-> d, ev |-> e,
                        flushed |-> r.flushed, log |-> r.log,
                        touched |-> touched ]
           /\ key_balance' = [key_balance EXCEPT ![d] = KeyBalance(d, r.out)]
           /\ frame_touch' = [frame_touch EXCEPT
                                ![d] = IF e.type = EV_SYN THEN FALSE ELSE touched]
           /\ suppressed' = [suppressed EXCEPT ![d] = Suppression(d, device[d], r)]
           /\ UNCHANGED foreign

Remove(d) ==
    /\ device[d].listed
    /\ \E clock_ok \in ClockResults :
         LET r == evdev_device_remove(Start(device[d]), clock_ok)
         IN  /\ device' = [device EXCEPT ![d] = r.dev]
             /\ slot_map' = r.map
             /\ emitted' = r.out
             /\ last' = [ op |-> "remove", dev |-> d,
                          ev |-> [type |-> -1, code |-> -1, value |-> 0],
                          flushed |-> r.flushed, log |-> r.log,
                          touched |-> frame_touch[d] ]
             /\ key_balance' = [key_balance EXCEPT ![d] = KeyBalance(d, r.out)]
             /\ UNCHANGED << foreign, frame_touch, suppressed >>

Next ==
    \/ \E d \in DOMAIN device : \E e \in Events(device[d].hw) : Process(d, e)
    \/ \E d \in DOMAIN device : Remove(d)

(* Bits of the slot map held by devices of the seat outside the model:    *)
(* none, or all but two.                                                  *)
ScarceMap == (0 .. SlotMapBits - 1) \ { 1, 3 }

Setup(hws, held) ==
    /\ device = [ d \in DOMAIN hws |-> evdev_device_create(hws[d]) ]
    /\ foreign = held
    /\ slot_map = held
    /\ emitted = << >>
    /\ last = [ op |-> "create", dev |-> 0,
                ev |-> [type |-> -1, code |-> -1, value |-> 0],
                flushed |-> NoFlush, log |-> << >>, touched |-> FALSE ]
    /\ key_balance = [ d \in DOMAIN hws |-> [ c \in KeyCodes |-> 0 ] ]
    /\ frame_touch = [ d \in DOMAIN hws |-> FALSE ]
    /\ suppressed = [ d \in DOMAIN hws |->
                        [ c \in Contacts(evdev_device_create(hws[d])) |-> FALSE ] ]

(* A keyboard-and-mouse device alone on its seat.                         *)
InitKeys == Setup(<< HwMouseKeyboard >>, {})

(* The multi-touch touchscreen alone on a seat with an empty slot map.    *)
InitTouch == Setup(<< HwTouchscreen >>, {})

(* A multi-touch panel and a single-touch touchscreen sharing a seat on   *)
(* which two seat slots are free.                                         *)
InitSeat == Setup(<< HwTouchPanel, HwSingleTouch >>, ScarceMap)

Init == InitKeys \/ InitTouch \/ InitSeat

Spec == Init /\ [][Next]_vars

SpecKeys == InitKeys /\ [][Next]_vars

SpecTouch == InitTouch /\ [][Next]_vars

SpecSeat == InitSeat /\ [][Next]_vars

(* ---------------------------------------------------------------------- *)
(* Calibration through the configuration interface.                       *)
(* ---------------------------------------------------------------------- *)
(* The six floats a caller supplies: the identity, an exchange of the     *)
(* axes, and a shift by one device width.                                 *)
Matrices ==
    { << 1, 0, 0, 0, 1, 0 >>, << 0, 1, 0, 1, 0, 0 >>, << 1, 0, 1, 0, 1, 0 >> }

NoEvent == [type |-> -1, code |-> -1, value |-> 0]

Configured(op, d, m, dev) ==
    /\ device' = [device EXCEPT ![d] = dev]
    /\ emitted' = << >>
    /\ last' = [ op |-> op, dev |-> d, ev |-> NoEvent, flushed |-> NoFlush,
                 log |-> << >>, touched |-> frame_touch[d], matrix |-> m ]
    /\ UNCHANGED << slot_map, foreign, key_balance, frame_touch, suppressed >>

(* libinput_device_config_calibration_set_matrix reaches set_matrix only  *)
(* on a device whose has_matrix holds.                                    *)
SetMatrix(d, m) ==
    /\ device[d].listed
    /\ evdev_calibration_has_matrix(device[d])
    /\ Configured("set_matrix", d, m, evdev_calibration_set_matrix(device[d], m))

SetDefaultCalibration(d, m) ==
    /\ device[d].listed
    /\ evdev_calibration_has_matrix(device[d])
    /\ Configured("set_default_calibration", d, m,
                  evdev_device_set_default_calibration(device[d], m))

NextCalibration ==
    \/ Next
    \/ \E d \in DOMAIN device : \E m \in Matrices : SetMatrix(d, m)
    \/ \E d \in DOMAIN device : \E m \in Matrices : SetDefaultCalibration(d, m)

(* A single-touch touchscreen whose axes span two units.                  *)
HwCalibratedTouch == [HwSingleTouch EXCEPT !.abs_max = 1]

InitCalibration == Setup(<< HwCalibratedTouch >>, {})

SpecCalibration == InitCalibration /\ [][NextCalibration]_vars

(* ---------------------------------------------------------------------- *)
(* Reading the event source: evdev_device_dispatch.                       *)
(* ---------------------------------------------------------------------- *)
LIBEVDEV_READ_STATUS_SUCCESS == 0

LIBEVDEV_READ_STATUS_SYNC == 1

EINTR == 4

EAGAIN == 11

(* An errno that is neither EAGAIN nor EINTR.                             *)
ENODEV == 19

SYN_DROPPED == 3

(* dispatch->interface->process of the fallback dispatcher.               *)
evdev_process_event(s, e) == fallback_process(s, e)

(* A device without mtdev hands the event straight to the dispatcher.     *)
evdev_device_dispatch_one(s, ev) == evdev_process_event(s, ev)

(* The value of a one-element set: binds a result that is used more than  *)
(* once.                                                                  *)
Only(S) == CHOOSE v \in S : TRUE

(* One dispatched event, with a record of it: where the event came from,  *)
(* what its flush acted on, what it emitted and what was pending after.   *)
Recorded(ds, after, ev, origin) ==
    [ds EXCEPT
       !.s = [after EXCEPT !.out = ds.s.out \o after.out,
                           !.log = ds.s.log \o after.log],
       !.within = @ /\ WithinBounds(ds.s.dev, ev),
       !.trace = Append(@, [ ev |-> ev, origin |-> origin,
                             before |-> ds.s.dev,
                             after |-> after.dev,
                             flushed |-> after.flushed,
                             out |-> after.out ])]

Traced(ds, ev, origin) ==
    Only({ Only({ Recorded(before, after, ev, origin) :
                    after \in { evdev_device_dispatch_one(
                                    [before.s EXCEPT !.out = << >>, !.log = << >>,
                                                     !.flushed = NoFlush], ev) } }) :
             before \in { ds } })

(* A drain that stops after the first event of the sync stream.           *)
evdev_sync_device_once(ds) ==
    LET r == Head(ds.reads)
        rest == [ds EXCEPT !.reads = Tail(@)]
    IN  IF r.rc < 0
        THEN [rest EXCEPT !.rc = IF r.rc = -EAGAIN THEN 0 ELSE r.rc]
        ELSE [Traced(rest, r.ev, "sync") EXCEPT !.rc = 0]

(* ds.reads: what libevdev_next_event returns, call after call.           *)
RECURSIVE evdev_sync_device(_)
evdev_sync_device(ds) ==
    LET r == Head(ds.reads)
        rest == [ds EXCEPT !.reads = Tail(@)]
    IN  IF r.rc < 0
        THEN [rest EXCEPT !.rc = IF r.rc = -EAGAIN THEN 0 ELSE r.rc]
        ELSE Only({ IF r.rc = LIBEVDEV_READ_STATUS_SYNC
                    THEN evdev_sync_device(done)
                    ELSE [done EXCEPT !.rc = r.rc] :
                      done \in { Traced(rest, r.ev, "sync") } })

RECURSIVE dispatch_loop(_)
dispatch_loop(ds) ==
    LET r == Head(ds.reads)
        rest == [ds EXCEPT !.reads = Tail(@)]
        step ==
            IF r.rc = LIBEVDEV_READ_STATUS_SYNC
            THEN LET synced == evdev_sync_device(
                                   Traced(rest, [r.ev EXCEPT !.code = SYN_REPORT],
                                          "synthetic"))
                 IN  [synced EXCEPT
                        !.rc = IF @ = 0 THEN LIBEVDEV_READ_STATUS_SUCCESS ELSE @]
            ELSE IF r.rc = LIBEVDEV_READ_STATUS_SUCCESS
            THEN [Traced(rest, r.ev, "normal") EXCEPT !.rc = r.rc]
            ELSE [rest EXCEPT !.rc = r.rc]
    IN  Only({ IF read.rc = LIBEVDEV_READ_STATUS_SUCCESS
               THEN dispatch_loop(read)
               ELSE read : read \in { step } })

(* A dispatch that leaves the source registered whatever the read error.  *)
evdev_device_dispatch_keeps_source(s, reads) ==
    dispatch_loop([ s |-> s, reads |-> reads, rc |-> 0, trace |-> << >>,
                    within |-> TRUE ])

evdev_device_dispatch(s, reads) ==
    Only({ IF done.rc # -EAGAIN /\ done.rc # -EINTR
           THEN [done EXCEPT !.s.out = Append(@, [kind |-> "remove_source"]),
                             !.s.dev.source = FALSE]
           ELSE done :
             done \in { dispatch_loop([ s |-> s, reads |-> reads, rc |-> 0,
                                        trace |-> << >>, within |-> TRUE ]) } })

(* The longest sync stream the model reads.                               *)
MaxSync == 2

SeqsUpTo(S, n) == UNION { [ 1 .. k -> S ] : k \in 0 .. n }

Read(rc, ev) == [ rc |-> rc, ev |-> ev ]

(* The events the source delivers in a dispatch call: a motion, a button  *)
(* press, a SYN_REPORT.                                                   *)
ReadEvents(hw) ==
    { e \in Events(hw) : \/ e.type = EV_SYN
                         \/ e.code \in { REL_X, BTN_LEFT } /\ e.value = 1 }

Tagged(rc, evs) == [ i \in 1 .. Len(evs) |-> Read(rc, evs[i]) ]

(* What libevdev_next_event can return over one dispatch call: possibly a *)
(* SYN_DROPPED and the sync stream, which ends with -EAGAIN or an error;  *)
(* then events read normally; then the value that ends the loop.          *)
SyncStreams(hw) ==
    { << Read(LIBEVDEV_READ_STATUS_SYNC,
              [type |-> EV_SYN, code |-> SYN_DROPPED, value |-> 0]) >>
      \o Tagged(LIBEVDEV_READ_STATUS_SYNC, evs) :
          evs \in SeqsUpTo(ReadEvents(hw), MaxSync) }

Scripts(hw) ==
    { sync \o << Read(-ENODEV, NoEvent) >> : sync \in SyncStreams(hw) }
    \cup
    { sync \o Tagged(LIBEVDEV_READ_STATUS_SUCCESS, post) \o << Read(final, NoEvent) >> :
          sync \in { s \o << Read(-EAGAIN, NoEvent) >> : s \in SyncStreams(hw) }
                   \cup { << >> },
          post \in SeqsUpTo(ReadEvents(hw), 1),
          final \in { -EAGAIN, -EINTR, -ENODEV } }

RECURSIVE FrameTouchAfter(_, _)
FrameTouchAfter(touched, trace) ==
    IF trace = << >> THEN touched
    ELSE FrameTouchAfter(
             IF Head(trace).ev.type = EV_SYN THEN FALSE
             ELSE touched \/ HasTouch(Head(trace).out),
             Tail(trace))

RECURSIVE SuppressionAfter(_, _)
SuppressionAfter(sup, trace) ==
    IF trace = << >> THEN sup
    ELSE LET t == Head(trace)
             c == FlushedContact(t.flushed)
             now == IF EVDEV_DEVICE_TOUCH \in t.before.seat_caps
                       /\ c \in DOMAIN sup
                    THEN CASE t.flushed.kind \in { "EVDEV_ABSOLUTE_MT_DOWN",
                                                   "EVDEV_ABSOLUTE_TOUCH_DOWN" } ->
                                IF SeatSlot(t.before, c) = -1
                                THEN [sup EXCEPT ![c] = SeatSlot(t.after, c) = -1]
                                ELSE sup
                           [] t.flushed.kind \in { "EVDEV_ABSOLUTE_MT_UP",
                                                   "EVDEV_ABSOLUTE_TOUCH_UP" } ->
                                [sup EXCEPT ![c] = FALSE]
                           [] OTHER -> sup
                    ELSE sup
         IN  SuppressionAfter(now, Tail(trace))

(* The event source's callback: one call of evdev_device_dispatch on a    *)
(* device whose source is registered.                                     *)
Dispatched(d, reads, traced) ==
    /\ device[d].listed
    /\ device[d].source
    /\ device[d].dispatch = "fallback"
    /\ ~device[d].mtdev
    /\ \E r \in { evdev_device_dispatch(Start(device[d]), reads) } :
           /\ r.within
           /\ device' = [device EXCEPT ![d] = r.s.dev]
           /\ slot_map' = r.s.map
           /\ emitted' = r.s.out
           /\ last' = [ op |-> "dispatch", dev |-> d, ev |-> NoEvent,
                        flushed |-> r.s.flushed, log |-> r.s.log,
                        touched |-> FrameTouchAfter(frame_touch[d], r.trace),
                        reads |-> reads, rc |-> r.rc,
                        trace |-> IF traced THEN r.trace ELSE << >> ]
           /\ key_balance' = [key_balance EXCEPT ![d] = KeyBalance(d, r.s.out)]
           /\ frame_touch' = [frame_touch EXCEPT
                                ![d] = FrameTouchAfter(frame_touch[d], r.trace)]
           /\ suppressed' = [suppressed EXCEPT
                               ![d] = SuppressionAfter(suppressed[d], r.trace)]
           /\ UNCHANGED foreign

Dispatch(d, reads) == Dispatched(d, reads, TRUE)

(* The life of a device read one event per call, then one call that      *)
(* reads a whole script, then its removal.                                *)
NextDispatch ==
    \/ \E d \in DOMAIN device : \E e \in Events(device[d].hw) :
          last.op # "dispatch" /\ Process(d, e)
    \/ \E d \in DOMAIN device : \E reads \in Scripts(device[d].hw) :
          last.op # "dispatch" /\ Dispatch(d, reads)
    \/ \E d \in DOMAIN device : Remove(d)

(* A mouse: one relative axis and one button.                             *)
HwMouse ==
    [ ev_abs |-> {}, ev_rel |-> { REL_X }, ev_key |-> { BTN_LEFT },
      ev_led |-> FALSE, direct |-> FALSE, num_slots |-> 0, active_slot |-> 0,
      abs_max |-> 0 ]

InitDispatch == Setup(<< HwMouse >>, {})

SpecDispatch == InitDispatch /\ [][NextDispatch]_vars

(* A mouse with a vertical and a horizontal wheel.                        *)
HwWheelMouse ==
    [ ev_abs |-> {}, ev_rel |-> { REL_X, REL_WHEEL, REL_HWHEEL },
      ev_key |-> { BTN_LEFT }, ev_led |-> FALSE, direct |-> FALSE,
      num_slots |-> 0, active_slot |-> 0, abs_max |-> 0 ]

InitWheel == Setup(<< HwWheelMouse >>, {})

SpecWheel == InitWheel /\ [][Next]_vars

(* ---------------------------------------------------------------------- *)
(* The calibrated touchscreen driven by the event sequences of            *)
(* test/litest-device-calibrated-touchscreen.c, one sequence per dispatch *)
(* call.                                                                  *)
(* ---------------------------------------------------------------------- *)
HwCalibratedTouchscreen == [HwTouchscreen EXCEPT !.abs_max = 1]

(* The tracking id the kernel hands out to a new contact.                 *)
TrackingIds == { 1 }

AbsEvent(code, value) == [type |-> EV_ABS, code |-> code, value |-> value]

SynReport == [type |-> EV_SYN, code |-> SYN_REPORT, value |-> 0]

touch_down_events(slot, id, x, y) ==
    << AbsEvent(ABS_MT_SLOT, slot), AbsEvent(ABS_MT_TRACKING_ID, id),
       AbsEvent(ABS_MT_POSITION_X, x), AbsEvent(ABS_MT_POSITION_Y, y), SynReport >>

touch_move_events(slot, x, y) ==
    << AbsEvent(ABS_MT_SLOT, slot),
       AbsEvent(ABS_MT_POSITION_X, x), AbsEvent(ABS_MT_POSITION_Y, y), SynReport >>

(* The contact in a slot ends: tracking id -1.                            *)
touch_up_events(slot) ==
    << AbsEvent(ABS_MT_SLOT, slot), AbsEvent(ABS_MT_TRACKING_ID, -1), SynReport >>

(* The sequence is read event by event, then the read returns -EAGAIN.    *)
ReadsOf(evs) ==
    Tagged(LIBEVDEV_READ_STATUS_SUCCESS, evs) \o << Read(-EAGAIN, NoEvent) >>

(* Where the contacts of the sequences are: two corners of the panel.     *)
Points(hw) ==
    { p \in AbsValues(hw, ABS_MT_POSITION_X) \X AbsValues(hw, ABS_MT_POSITION_Y) :
        p[1] + p[2] = hw.abs_max }

TouchSequences(hw) ==
    { touch_down_events(s, id, p[1], p[2]) :
          s \in AbsValues(hw, ABS_MT_SLOT), id \in TrackingIds, p \in Points(hw) }
    \cup { touch_move_events(s, p[1], p[2]) :
              s \in AbsValues(hw, ABS_MT_SLOT), p \in Points(hw) }
    \cup { touch_up_events(s) : s \in AbsValues(hw, ABS_MT_SLOT) }

NextTouchSequences ==
    \/ \E d \in DOMAIN device : \E evs \in TouchSequences(device[d].hw) :
          Dispatched(d, ReadsOf(evs), FALSE)
    \/ \E d \in DOMAIN device : Remove(d)

(* All seat slots but one held by devices outside the model.              *)
CrowdedMap == (0 .. SlotMapBits - 1) \ { 1 }

(* The touchscreen created and given its default calibration, on a seat   *)
(* with every seat slot free or with one.                                 *)
InitTouchSequences ==
    \E m \in Matrices : \E held \in { {}, CrowdedMap } :
        /\ device = << evdev_device_set_default_calibration(
                           evdev_device_create(HwCalibratedTouchscreen), m) >>
        /\ foreign = held
        /\ slot_map = held
        /\ emitted = << >>
        /\ last = [ op |-> "create", dev |-> 0, ev |-> NoEvent,
                    flushed |-> NoFlush, log |-> << >>, touched |-> FALSE ]
        /\ key_balance = << [ c \in KeyCodes |-> 0 ] >>
        /\ frame_touch = << FALSE >>
        /\ suppressed = << [ c \in Contacts(evdev_device_create(
                                            HwCalibratedTouchscreen)) |-> FALSE ] >>

SpecTouchSequences == InitTouchSequences /\ [][NextTouchSequences]_vars

(* ---------------------------------------------------------------------- *)
(* Single-contact absolute devices under a default calibration: the       *)
(* single-touch touchscreen, and a tablet that has a button and so is a   *)
(* pointer.                                                               *)
(* ---------------------------------------------------------------------- *)
HwTablet ==
    [ ev_abs |-> { ABS_X, ABS_Y },
      ev_rel |-> {}, ev_key |-> { BTN_TOUCH, BTN_LEFT }, ev_led |-> FALSE,
      direct |-> TRUE, num_slots |-> 0, active_slot |-> 0,
      abs_max |-> 1 ]

InitAbsolute ==
    \E m \in Matrices : \E hw \in { HwCalibratedTouch, HwTablet } :
        /\ device = << evdev_device_set_default_calibration(
                           evdev_device_create(hw), m) >>
        /\ foreign = {}
        /\ slot_map = {}
        /\ emitted = << >>
        /\ last = [ op |-> "create", dev |-> 0, ev |-> NoEvent,
                    flushed |-> NoFlush, log |-> << >>, touched |-> FALSE ]
        /\ key_balance = << [ c \in KeyCodes |-> 0 ] >>
        /\ frame_touch = << FALSE >>
        /\ suppressed = << [ c \in { -1 } |-> FALSE ] >>

SpecAbsolute == InitAbsolute /\ [][Next]_vars

(* ---------------------------------------------------------------------- *)
(* Devices that report relative axes together with absolute ones, each   *)
(* alone on its seat: a pointer with both kinds of axes.                  *)
(* ---------------------------------------------------------------------- *)
HwRelAbs ==
    [ ev_abs |-> { ABS_X, ABS_Y },
      ev_rel |-> { REL_X }, ev_key |-> { BTN_LEFT }, ev_led |-> FALSE,
      direct |-> FALSE, num_slots |-> 0, active_slot |-> 0,
      abs_max |-> 1 ]

(* A single-touch touchscreen and a multi-touch panel that also report a  *)
(* relative axis.                                                         *)
HwRelTouch ==
    [ ev_abs |-> { ABS_X, ABS_Y },
      ev_rel |-> { REL_X }, ev_key |-> { BTN_TOUCH }, ev_led |-> FALSE,
      direct |-> TRUE, num_slots |-> 0, active_slot |-> 0,
      abs_max |-> 0 ]

HwRelPanel == [HwTouchPanel EXCEPT !.ev_rel = { REL_X }]

InitMixed ==
    \/ Setup(<< HwRelAbs >>, {})
    \/ Setup(<< HwRelTouch >>, {})
    \/ Setup(<< HwRelPanel >>, {})

SpecMixed == InitMixed /\ [][Next]_vars

(* ---------------------------------------------------------------------- *)
(* Devices that report touches and have a button, and so are pointers     *)
(* without the touch capability: the tablet on a seat with two free seat  *)
(* slots, and a multi-touch screen with a button. The single-touch        *)
(* touchscreen stands beside them as the device that has the capability.  *)
(* ---------------------------------------------------------------------- *)
HwButtonScreen == [HwTouchscreen EXCEPT !.ev_key = { BTN_TOUCH, BTN_LEFT }]

InitPointers ==
    \/ Setup(<< HwTablet >>, ScarceMap)
    \/ Setup(<< HwButtonScreen >>, {})
    \/ Setup(<< HwSingleTouch >>, {})

SpecPointers == InitPointers /\ [][Next]_vars

(* ---------------------------------------------------------------------- *)
(* Creation of a device from what its event node declares.                *)
(* ---------------------------------------------------------------------- *)
MtAxes == { ABS_MT_POSITION_X, ABS_MT_POSITION_Y, ABS_MT_TRACKING_ID }

AbsSets ==
    { {}, { ABS_X }, { ABS_X, ABS_Y }, MtAxes, MtAxes \cup { ABS_MT_SLOT },
      { ABS_X, ABS_Y } \cup MtAxes \cup { ABS_MT_SLOT }, { ABS_MT_POSITION_X } }

Declared ==
    { [ ev_abs |-> a, ev_rel |-> r, ev_key |-> k, ev_led |-> l,
        direct |-> TRUE, num_slots |-> IF MtAxes \subseteq a THEN NumSlots ELSE 0,
        active_slot |-> 0, abs_max |-> 0 ] :
        a \in AbsSets, r \in { {}, { REL_Y } },
        k \in SUBSET { KEY_A, BTN_LEFT, BTN_TOUCH }, l \in BOOLEAN }

(* A device node the seat has been told of and has not yet opened.        *)
Undiscovered(hw) ==
    [ hw |-> hw, listed |-> FALSE, source |-> FALSE, fd |-> -1 ]

Create(d, fail) ==
    /\ last.op = "probe"
    /\ LET r == evdev_device_create_call(device[d].hw, fail)
       IN  /\ device' = [device EXCEPT
                           ![d] = IF r.result = "device" THEN r.device ELSE @]
           /\ emitted' = IF r.env.added THEN << [kind |-> "device_added"] >>
                         ELSE << >>
           /\ last' = [ op |-> "device_create", dev |-> d, ev |-> NoEvent,
                        flushed |-> NoFlush, log |-> << >>, touched |-> FALSE,
                        fail |-> fail, result |-> r.result, env |-> r.env ]
           /\ UNCHANGED << slot_map, foreign, key_balance, frame_touch, suppressed >>

NextCreate ==
    \/ \E d \in DOMAIN device : \E fail \in FailurePoints \cup { "none" } :
          Create(d, fail)
    \/ \E d \in DOMAIN device : Remove(d)

InitCreate ==
    \E hw \in Declared :
        /\ device = << Undiscovered(hw) >>
        /\ foreign = {}
        /\ slot_map = {}
        /\ emitted = << >>
        /\ last = [ op |-> "probe", dev |-> 1, ev |-> NoEvent, flushed |-> NoFlush,
                    log |-> << >>, touched |-> FALSE ]
        /\ key_balance = << [ c \in KeyCodes |-> 0 ] >>
        /\ frame_touch = << FALSE >>
        /\ suppressed = << [ c \in Contacts(evdev_device_create(hw)) |-> FALSE ] >>

SpecCreate == InitCreate /\ [][NextCreate]_vars

(* ---------------------------------------------------------------------- *)
(* What the last step was.                                                *)
(* ---------------------------------------------------------------------- *)
Processed(type) == last.op = "process" /\ last.ev.type = type

Frames(out) == Cardinality({ i \in 1 .. Len(out) : out[i].kind = "touch_frame" })

ClassCodes == { c \in KeyCodes : get_key_type(c) # "EVDEV_KEY_TYPE_NONE" }

(* ---------------------------------------------------------------------- *)
(* C1. Right after an EV_SYN event has been processed the device's        *)
(* pending event is NONE, whatever it was before and whether or not the   *)
(* flush emitted a notification.                                          *)
(* ---------------------------------------------------------------------- *)
C1_PendingNoneAfterSyn ==
    Processed(EV_SYN) => device[last.dev].pending_event = "EVDEV_NONE"

(* A SYN_REPORT that flushed a pending event without emitting anything.   *)
C1_Witness ==
    /\ Processed(EV_SYN)
    /\ last.flushed.kind = "EVDEV_RELATIVE_MOTION"
    /\ emitted = << >>

(* ---------------------------------------------------------------------- *)
(* C2. For every SYN_REPORT processed, one touch-frame is emitted if the  *)
(* device is TOUCH-capable and a touch-down, touch-motion or touch-up was *)
(* emitted since the previous SYN_REPORT, and none otherwise.             *)
(* ---------------------------------------------------------------------- *)
C2_FrameIffTouchNotified ==
    Processed(EV_SYN) =>
        Frames(emitted) =
            IF EVDEV_DEVICE_TOUCH \in device[last.dev].seat_caps /\ last.touched
            THEN 1 ELSE 0

(* It fails on the code: a position update on a slot that holds no seat   *)
(* slot, then SYN_REPORT, emits a touch-frame and no touch notification.  *)

EdgeTriggered(d, c) ==
    /\ KeyNotes(emitted', c, LIBINPUT_KEY_STATE_PRESSED) > 0
          => device[d].key_count[c] = 0 /\ device'[d].key_count[c] = 1
    /\ KeyNotes(emitted', c, LIBINPUT_KEY_STATE_RELEASED) > 0
          => device[d].key_count[c] = 1 /\ device'[d].key_count[c] = 0

C5_CountsNonNegative ==
    \A d \in DOMAIN device :
        /\ ~device[d].assert_failed
        /\ \A c \in KeyCodes : device[d].key_count[c] >= 0

C5_ReleasedWhilePositive ==
    \A c \in KeyCodes :
        (last'.op = "process"
           /\ KeyNotes(emitted', c, LIBINPUT_KEY_STATE_RELEASED) > 0)
        => device[last'.dev].key_count[c] > 0

C5_NoDecrementOfZero ==
    []C5_CountsNonNegative /\ [][C5_ReleasedWhilePositive]_vars

(* A release that was dispatched and took the count to zero, after a      *)
(* press that took the mask and the count up.                             *)
C5_Witness ==
    /\ Processed(EV_KEY)
    /\ last.ev.value = 0
    /\ KeyNotes(emitted, last.ev.code, LIBINPUT_KEY_STATE_RELEASED) = 1
    /\ device[last.dev].key_count[last.ev.code] = 0

(* ---------------------------------------------------------------------- *)
(* C6. An EV_KEY event with value 2, for any code including BTN_TOUCH,    *)
(* emits no notification and leaves the device and the seat unchanged:    *)
(* the pending event is neither flushed nor changed, key_mask and         *)
(* key_count keep their values.                                           *)
(* ---------------------------------------------------------------------- *)
C6_RepeatIgnored ==
    [][(last'.op = "process" /\ last'.ev.type = EV_KEY /\ last'.ev.value = 2)
         => /\ emitted' = << >>
            /\ device' = device
            /\ slot_map' = slot_map
            /\ last'.flushed = NoFlush]_vars

(* A repeat of BTN_TOUCH on a single-touch device whose pending event is  *)
(* kept.                                                                  *)
C6_Witness ==
    /\ Processed(EV_KEY)
    /\ last.ev.value = 2
    /\ last.ev.code = BTN_TOUCH
    /\ ~device[last.dev].is_mt
    /\ device[last.dev].pending_event = "EVDEV_ABSOLUTE_TOUCH_DOWN"

(* ---------------------------------------------------------------------- *)
(* C7. A release (value 0) of a KEY- or BUTTON-class code whose bit is    *)
(* clear in key_mask is dropped: no key or button notification, no        *)
(* change of key_count, no change of key_mask.                            *)
(* ---------------------------------------------------------------------- *)
C7_ReleaseOfUpKeyDropped ==
    [][(/\ last'.op = "process"
        /\ last'.ev.type = EV_KEY
        /\ last'.ev.value = 0
        /\ last'.ev.code \in ClassCodes
        /\ last'.ev.code \notin device[last'.dev].key_mask)
         => /\ \A i \in 1 .. Len(emitted') : emitted'[i].kind \notin KeyKinds
            /\ device'[last'.dev].key_count = device[last'.dev].key_count
            /\ device'[last'.dev].key_mask = device[last'.dev].key_mask]_vars

(* A dropped release of a key whose count is still 1 (pressed twice,      *)
(* released once), which flushed a pending motion on its way.             *)
C7_Witness ==
    /\ Processed(EV_KEY)
    /\ last.ev.value = 0
    /\ last.ev.code = KEY_A
    /\ KEY_A \notin device[last.dev].key_mask
    /\ device[last.dev].key_count[KEY_A] = 1
    /\ Len(emitted) = 1
    /\ emitted[1].kind = "pointer_motion"

(* ---------------------------------------------------------------------- *)
(* C8. On a seat whose devices' events interleave, every contact (a       *)
(* multi-touch slot or the single-touch contact) whose seat-slot is not   *)
(* -1 has its bit set in the seat slot-map, and no two such contacts, of  *)
(* one device or of two, hold the same seat-slot.                         *)
(* ---------------------------------------------------------------------- *)
Held == { dc \in UNION { { << d, c >> : c \in Contacts(device[d]) } :
                           d \in { x \in DOMAIN device : device[x].listed } } :
            SeatSlot(device[dc[1]], dc[2]) # -1 }

C8_SeatSlotsDistinctAndMarked ==
    /\ \A dc \in Held : SeatSlot(device[dc[1]], dc[2]) \in slot_map
    /\ \A p \in Held : \A q \in Held :
         p # q => SeatSlot(device[p[1]], p[2]) # SeatSlot(device[q[1]], q[2])

(* Both devices hold a seat-slot, the slot map is full, and a third       *)
(* contact went without.                                                  *)
C8_Witness ==
    /\ DOMAIN device = { 1, 2 }
    /\ device[1].listed /\ device[2].listed
    /\ device[1].mt.slots[0].seat_slot = 3
    /\ device[2].abs.seat_slot = 1
    /\ suppressed[1][1]
    /\ slot_map = 0 .. SlotMapBits - 1

(* ---------------------------------------------------------------------- *)
(* C9. A touch-up for seat-slot k is emitted in exactly the step that     *)
(* clears bit k of the slot map and resets the contact's seat-slot from k *)
(* to -1; so whenever no contact holds a seat-slot, the slot map has the  *)
(* value it started with.                                                 *)
(* ---------------------------------------------------------------------- *)
TouchUps(out, k) ==
    { i \in 1 .. Len(out) : out[i].kind = "touch_up" /\ out[i].seat_slot = k }

C9_UpClearsBit ==
    /\ \A k \in slot_map \ slot_map' : TouchUps(emitted', k) # {}
    /\ \A i \in 1 .. Len(emitted') :
         emitted'[i].kind = "touch_up" =>
             /\ emitted'[i].seat_slot \in slot_map \ slot_map'
             /\ SeatSlot(device[last'.dev], emitted'[i].slot) = emitted'[i].seat_slot
             /\ SeatSlot(device'[last'.dev], emitted'[i].slot) = -1

C9_AllUpMeansMapRestored ==
    (\A d \in DOMAIN device : \A c \in Contacts(device[d]) :
        SeatSlot(device[d], c) = -1)
    => slot_map = foreign

C9_UpAtomicWithRelease ==
    []C9_AllUpMeansMapRestored /\ [][C9_UpClearsBit]_vars

(* The second of two contacts went up and the slot map is empty again.    *)
C9_Witness ==
    /\ Processed(EV_SYN)
    /\ foreign = {}
    /\ slot_map = {}
    /\ TouchUps(emitted, 1) # {}
    /\ \A d \in DOMAIN device : \A c \in Contacts(device[d]) :
         SeatSlot(device[d], c) = -1

(* ---------------------------------------------------------------------- *)
(* C10. A touch-down flush on a contact without a seat-slot allocates the *)
(* lowest clear bit of the slot map and reports it; if no bit is clear    *)
(* the slot map is unchanged, the contact records -1, and no touch-down,  *)
(* touch-motion or touch-up is emitted for that contact until after its   *)
(* release.                                                               *)
(* ---------------------------------------------------------------------- *)
TouchNotesFor(out, c) ==
    { i \in 1 .. Len(out) : out[i].kind \in TouchKinds /\ out[i].slot = c }

C10_Allocation ==
    LET d == last'.dev
        c == FlushedContact(last'.flushed)
        clear == (0 .. SlotMapBits - 1) \ slot_map
    IN  (/\ last'.op = "process"
         /\ last'.flushed.kind \in { "EVDEV_ABSOLUTE_MT_DOWN",
                                     "EVDEV_ABSOLUTE_TOUCH_DOWN" }
         /\ EVDEV_DEVICE_TOUCH \in device[d].seat_caps
         /\ SeatSlot(device[d], c) = -1)
        => IF clear = {}
           THEN /\ slot_map' = slot_map
                /\ SeatSlot(device'[d], c) = -1
                /\ TouchNotesFor(emitted', c) = {}
           ELSE \E k \in clear :
                  /\ \A j \in clear : k <= j
                  /\ SeatSlot(device'[d], c) = k
                  /\ slot_map' = slot_map \cup { k }
                  /\ \E i \in TouchNotesFor(emitted', c) :
                       emitted'[i].kind = "touch_down" /\ emitted'[i].seat_slot = k

C10_Suppression ==
    last'.op = "process" =>
        \A c \in Contacts(device[last'.dev]) :
            suppressed[last'.dev][c] => TouchNotesFor(emitted', c) = {}

C10_AllocateOrSuppress ==
    [][C10_Allocation /\ C10_Suppression]_vars

(* The allocation half alone.                                             *)
C10_AllocationAlone == [][C10_Allocation]_vars

(* ---------------------------------------------------------------------- *)
(* C11. After set-matrix(M), for every M and every prior calibration of   *)
(* the device, get-matrix returns exactly M.                              *)
(* ---------------------------------------------------------------------- *)
C11_SetGetRoundTrip ==
    last.op = "set_matrix" =>
        evdev_calibration_get_matrix(device[last.dev]).matrix = last.matrix

(* The round trip for the matrices that are not the identity.             *)
C11_RoundTripOfNonIdentity ==
    (last.op = "set_matrix" /\ ~matrix_is_identity(matrix_from_farray6(last.matrix)))
        => evdev_calibration_get_matrix(device[last.dev]).matrix = last.matrix

(* ---------------------------------------------------------------------- *)
(* C12. After any sequence of set-matrix and set-default-calibration      *)
(* calls apply_calibration is true iff the matrix supplied last is not    *)
(* the identity; while it is false the effective matrix is the identity   *)
(* and transform_absolute returns every (x, y) unchanged.                 *)
(* ---------------------------------------------------------------------- *)
CalibrationOps == { "set_matrix", "set_default_calibration" }

C12_FlagFollowsLastMatrix ==
    \A d \in DOMAIN device :
        IF last'.op \in CalibrationOps /\ last'.dev = d
        THEN device'[d].abs.apply_calibration
                <=> ~matrix_is_identity(matrix_from_farray6(last'.matrix))
        ELSE device'[d].abs.apply_calibration = device[d].abs.apply_calibration

C12_IdentityWhenNotApplied ==
    \A d \in DOMAIN device :
        ~device[d].abs.apply_calibration =>
            /\ matrix_is_identity(device[d].abs.calibration)
            /\ \A x \in -1 .. 2 : \A y \in -1 .. 2 :
                 transform_absolute(device[d], x, y) = << x, y >>

C12_ApplyIffNotIdentity ==
    []C12_IdentityWhenNotApplied /\ [][C12_FlagFollowsLastMatrix]_vars

(* The identity supplied as the default after a user matrix that was not. *)
C12_Witness ==
    /\ last.op = "set_default_calibration"
    /\ matrix_is_identity(matrix_from_farray6(last.matrix))
    /\ ~matrix_is_identity(device[last.dev].abs.usermatrix)
    /\ ~device[last.dev].abs.apply_calibration
    /\ matrix_is_identity(device[last.dev].abs.calibration)

(* ---------------------------------------------------------------------- *)
(* C13. evdev_device_remove first deregisters the event source, then      *)
(* emits one RELEASED (keyboard-key for a KEY-class code, pointer-button  *)
(* for a BUTTON-class code) for every code whose press count is positive, *)
(* in ascending code order and for no other code, and only then emits the *)
(* device-removed notification.                                           *)
(* ---------------------------------------------------------------------- *)
C13_RemovalOrder ==
    LET d == last'.dev
        out == emitted'
        n == Len(out)
        down == { c \in KeyCodes : get_key_down_count(device[d], c) > 0 }
    IN  last'.op = "remove" =>
          /\ n = Cardinality(down) + 2
          /\ device[d].source /\ out[1].kind = "remove_source"
          /\ out[n].kind = "device_removed"
          /\ \A i \in 2 .. n - 1 :
               /\ out[i].kind \in KeyKinds
               /\ out[i].state = LIBINPUT_KEY_STATE_RELEASED
               /\ out[i].code \in down
               /\ out[i].kind = IF get_key_type(out[i].code) = "EVDEV_KEY_TYPE_KEY"
                                THEN "keyboard_key" ELSE "pointer_button"
               /\ i < n - 1 => out[i].code < out[i + 1].code

SyncLength(reads) ==
    CHOOSE k \in 0 .. Len(reads) - 2 :
        /\ \A i \in 2 .. k + 1 : reads[i].rc = LIBEVDEV_READ_STATUS_SYNC
        /\ reads[k + 2].rc # LIBEVDEV_READ_STATUS_SYNC

C14_Recovery ==
    (last'.op = "dispatch" /\ last'.reads[1].rc = LIBEVDEV_READ_STATUS_SYNC) =>
        LET reads == last'.reads
            trace == last'.trace
            k == SyncLength(reads)
            resumed == Len(reads) - k - 3
        IN  /\ Len(trace) >= k + 1
            /\ trace[1].origin = "synthetic"
            /\ trace[1].ev = [type |-> EV_SYN, code |-> SYN_REPORT, value |-> 0]
            /\ trace[1].flushed.kind = device[last'.dev].pending_event
            /\ trace[1].after.pending_event = "EVDEV_NONE"
            /\ \A i \in 2 .. k + 1 :
                 trace[i].origin = "sync" /\ trace[i].ev = reads[i].ev
            /\ reads[k + 1].ev.type = EV_SYN
                  => trace[k + 1].after.pending_event = "EVDEV_NONE"
            /\ IF reads[k + 2].rc = -EAGAIN
               THEN /\ Len(trace) = k + 1 + resumed
                    /\ \A j \in 1 .. resumed :
                         /\ trace[k + 1 + j].origin = "normal"
                         /\ trace[k + 1 + j].ev = reads[k + 2 + j].ev
                    /\ last'.rc = reads[Len(reads)].rc
               ELSE /\ Len(trace) = k + 1
                    /\ last'.rc = reads[k + 2].rc

C14_SyncRecovery == [][C14_Recovery]_vars

(* A SYN_DROPPED met in the middle of a frame: the synthetic SYN_REPORT   *)
(* flushed a relative motion, two sync events ending with a SYN_REPORT    *)
(* were drained, and one more event was read normally.                    *)
C14_Witness ==
    /\ last.op = "dispatch"
    /\ Len(last.trace) = 4
    /\ last.trace[1].origin = "synthetic"
    /\ last.trace[1].flushed.kind = "EVDEV_RELATIVE_MOTION"
    /\ last.trace[2].ev.type = EV_KEY
    /\ last.trace[3].origin = "sync" /\ last.trace[3].ev.type = EV_SYN
    /\ last.trace[3].after.pending_event = "EVDEV_NONE"
    /\ last.trace[4].origin = "normal"

(* ---------------------------------------------------------------------- *)
(* C19. When the read loop of evdev_device_dispatch ends with an error    *)
(* other than EAGAIN or EINTR the event source is deregistered and the    *)
(* device and its state are kept; when it ends with EAGAIN or EINTR the   *)
(* source stays registered; a removal that follows a read error does not  *)
(* deregister the source a second time.                                   *)
(* ---------------------------------------------------------------------- *)
SourcesRemoved(out) ==
    Cardinality({ i \in 1 .. Len(out) : out[i].kind = "remove_source" })

C19_AfterReadLoop ==
    last'.op = "dispatch" =>
        LET d == last'.dev
            trace == last'.trace
            processed == IF trace = << >> THEN device[d]
                         ELSE trace[Len(trace)].after
        IN  IF last'.rc \in { -EAGAIN, -EINTR }
            THEN /\ device'[d] = processed
                 /\ device'[d].source
                 /\ SourcesRemoved(emitted') = 0
            ELSE /\ device'[d] = [processed EXCEPT !.source = FALSE]
                 /\ device'[d].listed
                 /\ device'[d].fd = device[d].fd
                 /\ SourcesRemoved(emitted') = 1

C19_RemovalAfterReadLoop ==
    last'.op = "remove" =>
        /\ SourcesRemoved(emitted') = IF device[last'.dev].source THEN 1 ELSE 0
        /\ (last.op = "dispatch" /\ last.dev = last'.dev)
              => SourcesRemoved(emitted) + SourcesRemoved(emitted') = 1

C19_SourceRemovedOnce == [][C19_AfterReadLoop /\ C19_RemovalAfterReadLoop]_vars

(* A removal right after a dispatch call that ended with a read error and *)
(* had deregistered the source.                                           *)
C19_Witness ==
    /\ last.op = "remove"
    /\ ~device[last.dev].source
    /\ ~device[last.dev].listed
    /\ SourcesRemoved(emitted) = 0
    /\ emitted[Len(emitted)].kind = "device_removed"

(* ---------------------------------------------------------------------- *)
(* C15. REL_X and REL_Y events that arrive while a relative motion is     *)
(* pending coalesce: each adds its value to the accumulator of its axis   *)
(* and emits nothing; the flush emits one pointer-motion carrying the     *)
(* accumulated (dx, dy), and none when both are zero, ahead of whatever   *)
(* the flushing event itself notifies, and clears the accumulators.       *)
(* ---------------------------------------------------------------------- *)
Motions(out) == { i \in 1 .. Len(out) : out[i].kind = "pointer_motion" }

C15_Accumulates ==
    LET d == last'.dev
        e == last'.ev
        before == device[d]
        after == device'[d]
    IN  (last'.op = "process" /\ e.type = EV_REL /\ e.code \in { REL_X, REL_Y }) =>
          /\ after.pending_event = "EVDEV_RELATIVE_MOTION"
          /\ Motions(emitted') = {}
          /\ before.pending_event = "EVDEV_RELATIVE_MOTION" => emitted' = << >>
          /\ after.rel.dx = before.rel.dx + (IF e.code = REL_X THEN e.value ELSE 0)
          /\ after.rel.dy = before.rel.dy + (IF e.code = REL_Y THEN e.value ELSE 0)

C15_FlushEmitsSum ==
    LET d == last'.dev
        before == device[d]
        after == device'[d]
    IN  last'.op = "process" =>
          IF last'.flushed.kind = "EVDEV_RELATIVE_MOTION"
          THEN /\ after.rel = [dx |-> 0, dy |-> 0]
               /\ IF before.rel.dx = 0 /\ before.rel.dy = 0
                  THEN Motions(emitted') = {}
                  ELSE /\ Motions(emitted') = { 1 }
                       /\ emitted'[1].dx = before.rel.dx
                       /\ emitted'[1].dy = before.rel.dy
          ELSE Motions(emitted') = {}

C15_NothingAccumulatedUnlessPending ==
    \A d \in DOMAIN device :
        device[d].pending_event # "EVDEV_RELATIVE_MOTION"
            => device[d].rel = [dx |-> 0, dy |-> 0]

C15_RelativeMotionCoalesces ==
    /\ []C15_NothingAccumulatedUnlessPending
    /\ [][C15_Accumulates /\ C15_FlushEmitsSum]_vars

(* A button press that flushed a motion coalesced from a REL_X and a      *)
(* REL_Y: the pointer-motion comes first, the button after it.            *)
C15_Witness ==
    /\ Processed(EV_KEY)
    /\ last.ev.code = BTN_LEFT /\ last.ev.value = 1
    /\ Len(emitted) = 2
    /\ emitted[1].kind = "pointer_motion"
    /\ emitted[1].dx = 1 /\ emitted[1].dy = -1
    /\ emitted[2].kind = "pointer_button"
    /\ emitted[2].state = LIBINPUT_KEY_STATE_PRESSED

(* ---------------------------------------------------------------------- *)
(* C16. REL_WHEEL with value v emits one vertical-scroll notification of  *)
(* value -v*10; REL_HWHEEL with v in {-1, 1} emits one horizontal-scroll  *)
(* notification of value v*10 and with any other v none. Either one       *)
(* flushes the pending event first: its notification, if any, comes       *)
(* before the scroll, and nothing is pending afterwards.                  *)
(* ---------------------------------------------------------------------- *)
Scrolls(out) == { i \in 1 .. Len(out) : out[i].kind = "pointer_axis" }

C16_Wheel ==
    LET d == last'.dev
        e == last'.ev
        out == emitted'
        before == device[d]
        moved == before.pending_event = "EVDEV_RELATIVE_MOTION"
                 /\ before.rel # [dx |-> 0, dy |-> 0]
        flush == IF moved THEN 1 ELSE 0
        scrolls == e.code = REL_WHEEL \/ e.value \in { -1, 1 }
    IN  (/\ last'.op = "process"
         /\ e.type = EV_REL
         /\ e.code \in { REL_WHEEL, REL_HWHEEL }) =>
          /\ last'.flushed.kind = before.pending_event
          /\ device'[d].pending_event = "EVDEV_NONE"
          /\ device'[d].rel = [dx |-> 0, dy |-> 0]
          /\ Len(out) = flush + (IF scrolls THEN 1 ELSE 0)
          /\ moved => /\ out[1].kind = "pointer_motion"
                      /\ out[1].dx = before.rel.dx
                      /\ out[1].dy = before.rel.dy
          /\ Scrolls(out) = IF scrolls THEN { Len(out) } ELSE {}
          /\ scrolls =>
               /\ out[Len(out)].axis =
                     IF e.code = REL_WHEEL
                     THEN "LIBINPUT_POINTER_AXIS_SCROLL_VERTICAL"
                     ELSE "LIBINPUT_POINTER_AXIS_SCROLL_HORIZONTAL"
               /\ out[Len(out)].value =
                     IF e.code = REL_WHEEL THEN -(e.value * 10) ELSE e.value * 10

C16_WheelScrolls == [][C16_Wheel]_vars

(* A horizontal wheel event of two clicks met a pending motion: the       *)
(* motion was flushed and no scroll was notified.                         *)
C16_Witness ==
    /\ Processed(EV_REL)
    /\ last.ev.code = REL_HWHEEL /\ last.ev.value = 2
    /\ last.flushed.kind = "EVDEV_RELATIVE_MOTION"
    /\ Len(emitted) = 1 /\ emitted[1].kind = "pointer_motion"
    /\ device[last.dev].pending_event = "EVDEV_NONE"

(* A vertical wheel event of two clicks down.                             *)
C16_WitnessVertical ==
    /\ Processed(EV_REL)
    /\ last.ev.code = REL_WHEEL /\ last.ev.value = -2
    /\ emitted = << [kind |-> "pointer_axis",
                     axis |-> "LIBINPUT_POINTER_AXIS_SCROLL_VERTICAL",
                     value |-> 20] >>

(* ---------------------------------------------------------------------- *)
(* C17. A device of the fallback dispatcher gets at creation exactly:     *)
(* POINTER iff it has (ABS_X or ABS_Y, or REL_X or REL_Y) and a BUTTON-   *)
(* class code; KEYBOARD iff it has a KEY-class code or LEDs; TOUCH iff it *)
(* has (both multi-touch position axes, or BTN_TOUCH) and no BUTTON-class *)
(* code.                                                                  *)
(* ---------------------------------------------------------------------- *)
HasClass(hw, class) == \E c \in hw.ev_key : c < KEY_MAX /\ get_key_type(c) = class

ExpectedCapabilities(hw) ==
    LET has_button == HasClass(hw, "EVDEV_KEY_TYPE_BUTTON")
        has_axis == \/ hw.ev_abs \cap { ABS_X, ABS_Y } # {}
                    \/ hw.ev_rel \cap { REL_X, REL_Y } # {}
        has_touch == \/ { ABS_MT_POSITION_X, ABS_MT_POSITION_Y } \subseteq hw.ev_abs
                     \/ BTN_TOUCH \in hw.ev_key
    IN  { cap \in { EVDEV_DEVICE_POINTER, EVDEV_DEVICE_KEYBOARD, EVDEV_DEVICE_TOUCH } :
            \/ cap = EVDEV_DEVICE_POINTER /\ has_axis /\ has_button
            \/ cap = EVDEV_DEVICE_KEYBOARD
               /\ (HasClass(hw, "EVDEV_KEY_TYPE_KEY") \/ hw.ev_led)
            \/ cap = EVDEV_DEVICE_TOUCH /\ has_touch /\ ~has_button }

C17_CapabilitiesAtCreation ==
    \A d \in DOMAIN device :
        (device[d].listed /\ device[d].dispatch = "fallback")
            => device[d].seat_caps = ExpectedCapabilities(device[d].hw)

(* The direct touchscreen with slots, both sets of position axes and      *)
(* BTN_TOUCH as its only key was created with the touch capability alone. *)
C17_Witness ==
    /\ last.op = "device_create" /\ last.result = "device"
    /\ device[1].hw.ev_abs = { ABS_X, ABS_Y } \cup MtAxes \cup { ABS_MT_SLOT }
    /\ device[1].hw.ev_key = { BTN_TOUCH }
    /\ device[1].hw.ev_rel = {} /\ ~device[1].hw.ev_led
    /\ device[1].seat_caps = { EVDEV_DEVICE_TOUCH }

(* ---------------------------------------------------------------------- *)
(* C18. A call of evdev_device_create that does not return a device       *)
(* leaves nothing behind: it returns NULL on a resource failure and the   *)
(* UNHANDLED sentinel on a device without capabilities, and in both cases *)
(* the file descriptor it opened is closed, the seat's reference count is *)
(* what it was, no event source is registered, the device is not in the   *)
(* seat's list and no device-added notification was sent.                 *)
(* ---------------------------------------------------------------------- *)
CreateFailed == last.op = "device_create" /\ last.result # "device"

NothingLeft(env) ==
    /\ env.fd # "open"
    /\ env.seat_refs = 0
    /\ ~env.source
    /\ ~env.listed
    /\ ~env.added

(* NULL is returned only when a call failed, the sentinel only for a      *)
(* device that was opened and configured and has no capability.           *)
ResultTellsWhy ==
    /\ last.result = "NULL" => last.fail # "none"
    /\ last.result = "EVDEV_UNHANDLED_DEVICE"
          => evdev_configure_device(device[last.dev].hw).seat_caps = {}
    /\ (last.fail = "none"
          /\ evdev_configure_device(device[last.dev].hw).seat_caps = {})
          => last.result = "EVDEV_UNHANDLED_DEVICE"

C18_FailedCreateLeavesNothing ==
    CreateFailed =>
        /\ NothingLeft(last.env)
        /\ emitted = << >>
        /\ ~device[last.dev].listed
        /\ ResultTellsWhy

(* The same for every failure but that of the allocation of the device.   *)
C18_ExceptAllocationFailure ==
    (CreateFailed /\ last.fail # "zalloc") =>
        /\ NothingLeft(last.env)
        /\ emitted = << >>
        /\ ~device[last.dev].listed
        /\ ResultTellsWhy

(* ---------------------------------------------------------------------- *)
(* C20. On a multi-touch device with the touch capability, the down       *)
(* sequence on a slot without a seat slot, when the seat has a free seat  *)
(* slot, emits exactly one touch-down for that slot with a seat slot that *)
(* was free and the coordinates T(x, y), then one touch-frame, and no     *)
(* touch-motion; the move sequence on a slot that has a seat slot emits   *)
(* exactly one touch-motion for that slot and seat slot with T(x, y),     *)
(* then one touch-frame. T is the calibration the device was given,       *)
(* applied once to the coordinates of the sequence.                       *)
(* ---------------------------------------------------------------------- *)
(* The calibration in device coordinates: the translation of the          *)
(* normalized matrix is scaled by the extent of the axes.                 *)
T(dev, x, y) ==
    LET m == dev.abs.default_calibration
        extent == dev.hw.abs_max - AbsMinimum + 1
    IN  << m[1] * x + m[2] * y + m[3] * extent,
           m[4] * x + m[5] * y + m[6] * extent >>

Fed(evs) == last'.op = "dispatch" /\ last'.reads = ReadsOf(evs)

C20_Down ==
    \A d \in DOMAIN device : \A s \in Contacts(device[d]) \ { -1 } :
      \A id \in TrackingIds : \A x, y \in 0 .. device[d].hw.abs_max :
        ( /\ Fed(touch_down_events(s, id, x, y)) /\ last'.dev = d
          /\ device[d].is_mt /\ EVDEV_DEVICE_TOUCH \in device[d].seat_caps
          /\ device[d].mt.slots[s].seat_slot = -1
          /\ slot_map # 0 .. SlotMapBits - 1 )
        => \E seat_slot \in (0 .. SlotMapBits - 1) \ slot_map :
              /\ emitted' = << touch_notification("touch_down", s, seat_slot,
                                                  T(device[d], x, y)),
                               [kind |-> "touch_frame"] >>
              /\ device'[d].mt.slots[s].seat_slot = seat_slot

C20_Move ==
    \A d \in DOMAIN device : \A s \in Contacts(device[d]) \ { -1 } :
      \A x, y \in 0 .. device[d].hw.abs_max :
        ( /\ Fed(touch_move_events(s, x, y)) /\ last'.dev = d
          /\ device[d].is_mt /\ EVDEV_DEVICE_TOUCH \in device[d].seat_caps
          /\ device[d].mt.slots[s].seat_slot # -1 )
        => emitted' = << touch_notification("touch_motion", s,
                                            device[d].mt.slots[s].seat_slot,
                                            T(device[d], x, y)),
                         [kind |-> "touch_frame"] >>

C20_TouchSequences == [][C20_Down /\ C20_Move]_vars

(* A contact went down and then moved, under a calibration that is not    *)
(* the identity: the motion carries coordinates other than the raw ones.  *)
C20_Witness ==
    /\ last.op = "dispatch"
    /\ \E s \in 0 .. NumSlots - 1 : \E x, y \in 0 .. 1 :
          /\ last.reads = ReadsOf(touch_move_events(s, x, y))
          /\ Len(emitted) = 2
          /\ emitted[1].kind = "touch_motion"
          /\ << emitted[1].x, emitted[1].y >> # << x, y >>
          /\ emitted[2].kind = "touch_frame"

C20_WitnessDown ==
    /\ last.op = "dispatch"
    /\ \E s \in 0 .. NumSlots - 1 : \E id \in TrackingIds : \E x, y \in 0 .. 1 :
          /\ last.reads = ReadsOf(touch_down_events(s, id, x, y))
          /\ Len(emitted) = 2
          /\ emitted[1].kind = "touch_down"
          /\ << emitted[1].x, emitted[1].y >> # << x, y >>
          /\ foreign # {}

(* ---------------------------------------------------------------------- *)
(* C21. Applying a default calibration D makes the default matrix D       *)
(* (get-default-matrix returns D) and the effective matrix the            *)
(* composition computed from D; a later set-matrix(U) makes the user      *)
(* matrix U and the effective matrix the composition computed from U, and *)
(* leaves the default matrix as it was.                                   *)
(* ---------------------------------------------------------------------- *)
(* The matrix in device coordinates: the translation of the normalized    *)
(* matrix scaled by the extent of the axes (both axes have one extent).   *)
Composition(dev, m) ==
    LET extent == dev.hw.abs_max - AbsMinimum + 1
    IN  << m[1], m[2], m[3] * extent, m[4], m[5], m[6] * extent, 0, 0, 1 >>

C21_Default ==
    \A d \in DOMAIN device :
        (last'.op = "set_default_calibration" /\ last'.dev = d) =>
            /\ evdev_calibration_get_default_matrix(device'[d]).matrix = last'.matrix
            /\ device'[d].abs.calibration = Composition(device'[d], last'.matrix)

C21_UserKeepsDefault ==
    \A d \in DOMAIN device :
        (last'.op = "set_matrix" /\ last'.dev = d) =>
            /\ device'[d].abs.default_calibration = device[d].abs.default_calibration
            /\ device'[d].abs.calibration = Composition(device'[d], last'.matrix)
            /\ ~matrix_is_identity(matrix_from_farray6(last'.matrix))
                  => device'[d].abs.usermatrix = matrix_from_farray6(last'.matrix)
            /\ device'[d] = [device[d] EXCEPT
                               !.abs.usermatrix = device'[d].abs.usermatrix,
                               !.abs.calibration = device'[d].abs.calibration,
                               !.abs.apply_calibration =
                                   device'[d].abs.apply_calibration]

DownKinds == { "EVDEV_ABSOLUTE_MT_DOWN", "EVDEV_ABSOLUTE_TOUCH_DOWN" }

Coordinates(dev, c) ==
    IF c = -1 THEN << dev.abs.x, dev.abs.y >>
    ELSE << dev.mt.slots[c].x, dev.mt.slots[c].y >>

DuplicateDown(d) ==
    /\ last'.op = "process" /\ last'.dev = d
    /\ last'.flushed.kind \in DownKinds
    /\ EVDEV_DEVICE_TOUCH \in device[d].seat_caps
    /\ SeatSlot(device[d], FlushedContact(last'.flushed)) # -1

C22_Dropped ==
    \A d \in DOMAIN device :
        DuplicateDown(d) =>
            LET c == FlushedContact(last'.flushed)
            IN  /\ ~HasTouch(emitted')
                /\ slot_map' = slot_map
                /\ SeatSlot(device'[d], c) = SeatSlot(device[d], c)
                /\ Coordinates(device'[d], c) = Coordinates(device[d], c)
                /\ last'.log = << "log_bug_kernel" >>
                /\ device[d].pending_event = last'.flushed.kind
                /\ device'[d] = fallback_process(
                                    Start([device[d] EXCEPT
                                             !.pending_event = "EVDEV_NONE"]),
                                    last'.ev).dev

C22_DuplicateDownDropped == [][C22_Dropped]_vars

(* A second tracking id for a slot that holds a seat slot was flushed.    *)
C22_Witness ==
    /\ last.op = "process"
    /\ last.flushed.kind = "EVDEV_ABSOLUTE_MT_DOWN"
    /\ last.log = << "log_bug_kernel" >>
    /\ device[last.dev].mt.slots[last.flushed.slot].seat_slot # -1
    /\ device[last.dev].pending_event = "EVDEV_NONE"

(* A second BTN_TOUCH press of a single-touch contact was flushed.        *)
C22_WitnessSingleTouch ==
    /\ last.op = "process"
    /\ last.flushed.kind = "EVDEV_ABSOLUTE_TOUCH_DOWN"
    /\ last.log = << "log_bug_kernel" >>
    /\ device[last.dev].abs.seat_slot # -1
    /\ device[last.dev].pending_event = "EVDEV_NONE"

(* ---------------------------------------------------------------------- *)
(* C23. On a device that is not multi-touch, the flush of a pending       *)
(* ABSOLUTE_MOTION emits, with the touch capability, one touch-motion     *)
(* with slot -1 on the held seat slot iff the contact holds a seat slot,  *)
(* and nothing otherwise; with the pointer and without the touch          *)
(* capability, exactly one pointer-motion-absolute; both carry the        *)
(* calibrated latest (x, y). Single-touch touch-down and touch-up carry   *)
(* slot -1, and the touch-up carries the seat slot of its touch-down.     *)
(* ---------------------------------------------------------------------- *)
Positional(out) ==
    SelectSeq(out, LAMBDA n : n.kind \in TouchKinds \cup { "pointer_motion_absolute" })

C23_Motion ==
    \A d \in DOMAIN device :
        ( /\ last'.op = "process" /\ last'.dev = d
          /\ ~device[d].is_mt
          /\ last'.flushed.kind = "EVDEV_ABSOLUTE_MOTION" )
        => LET xy == T(device[d], device[d].abs.x, device[d].abs.y)
               seat_slot == device[d].abs.seat_slot
           IN  Positional(emitted') =
                 IF EVDEV_DEVICE_TOUCH \in device[d].seat_caps
                 THEN IF seat_slot # -1
                      THEN << touch_notification("touch_motion", -1, seat_slot, xy) >>
                      ELSE << >>
                 ELSE IF EVDEV_DEVICE_POINTER \in device[d].seat_caps
                 THEN << [kind |-> "pointer_motion_absolute",
                          x |-> xy[1], y |-> xy[2]] >>
                 ELSE << >>

(* The seat slot of the contact is that of the last touch-down until the  *)
(* touch-up, which carries it.                                            *)
C23_DownUp ==
    \A d \in DOMAIN device :
        (last'.dev = d /\ ~device[d].is_mt) =>
            LET notes == SelectSeq(emitted', LAMBDA n : n.kind \in TouchKinds)
                before == device[d].abs.seat_slot
                after == device'[d].abs.seat_slot
            IN  /\ Len(notes) <= 1
                /\ \A i \in 1 .. Len(notes) :
                     /\ notes[i].slot = -1
                     /\ notes[i].kind = "touch_down"
                          => before = -1 /\ after = notes[i].seat_slot /\ after # -1
                     /\ notes[i].kind = "touch_up"
                          => before = notes[i].seat_slot /\ after = -1
                     /\ notes[i].kind = "touch_motion"
                          => before = notes[i].seat_slot /\ after = before
                /\ notes = << >> => after = before

C23_SingleContact == [][C23_Motion /\ C23_DownUp]_vars

(* The tablet reported a position that the calibration moved.             *)
C23_Witness ==
    /\ last.op = "process"
    /\ last.flushed.kind = "EVDEV_ABSOLUTE_MOTION"
    /\ Len(emitted) >= 1
    /\ emitted[1].kind = "pointer_motion_absolute"
    /\ << emitted[1].x, emitted[1].y >>
         # << device[last.dev].abs.x, device[last.dev].abs.y >>

(* The touchscreen's contact moved, and was lifted.                       *)
C23_WitnessMotion ==
    /\ last.op = "process"
    /\ last.flushed.kind = "EVDEV_ABSOLUTE_MOTION"
    /\ Len(emitted) >= 1
    /\ emitted[1].kind = "touch_motion"
    /\ emitted[1].slot = -1

C23_WitnessUp ==
    /\ last.op = "process"
    /\ Len(emitted) >= 1
    /\ emitted[1].kind = "touch_up"
    /\ emitted[1].slot = -1

(* ---------------------------------------------------------------------- *)
(* C24. Whenever an event is pending and a raw event of another class     *)
(* (relative motion, single-contact absolute, multi-touch, key or button) *)
(* is accepted into the device state, the pending event is flushed in     *)
(* that step, before the state of the new event is recorded.              *)
(* ---------------------------------------------------------------------- *)
ClassOfPending(kind) ==
    CASE kind = "EVDEV_RELATIVE_MOTION" -> "relative"
      [] kind \in { "EVDEV_ABSOLUTE_MOTION", "EVDEV_ABSOLUTE_TOUCH_DOWN",
                    "EVDEV_ABSOLUTE_TOUCH_UP" } -> "single-contact"
      [] kind \in { "EVDEV_ABSOLUTE_MT_DOWN", "EVDEV_ABSOLUTE_MT_MOTION",
                    "EVDEV_ABSOLUTE_MT_UP" } -> "multi-touch"
      [] OTHER -> "none"

ClassOfEvent(dev, e) ==
    CASE e.type = EV_REL -> "relative"
      [] e.type = EV_ABS -> IF dev.is_mt THEN "multi-touch" ELSE "single-contact"
      [] e.type = EV_KEY /\ e.code = BTN_TOUCH -> "single-contact"
      [] e.type = EV_KEY -> "key"
      [] OTHER -> "none"

(* The events a handler records something of.                             *)
Accepted(dev, e) ==
    \/ e.type = EV_REL /\ e.code \in { REL_X, REL_Y, REL_WHEEL, REL_HWHEEL }
    \/ e.type = EV_ABS /\ dev.is_mt
         /\ e.code \in { ABS_MT_SLOT, ABS_MT_TRACKING_ID,
                         ABS_MT_POSITION_X, ABS_MT_POSITION_Y }
    \/ e.type = EV_ABS /\ ~dev.is_mt /\ e.code \in { ABS_X, ABS_Y }
    \/ e.type = EV_KEY /\ e.value # 2 /\ (e.code = BTN_TOUCH => ~dev.is_mt)

OtherClassAccepted(d) ==
    /\ last'.op = "process" /\ last'.dev = d
    /\ device[d].pending_event # "EVDEV_NONE"
    /\ Accepted(device[d], last'.ev)
    /\ ClassOfEvent(device[d], last'.ev) # ClassOfPending(device[d].pending_event)

C24_Flushed ==
    \A d \in DOMAIN device :
        OtherClassAccepted(d) => last'.flushed.kind = device[d].pending_event

C24_FlushBeforeOtherClass == [][C24_Flushed]_vars

(* The same for every event but the absolute positions.                   *)
C24_FlushedUnlessPosition ==
    \A d \in DOMAIN device :
        (OtherClassAccepted(d)
         /\ ~(last'.ev.type = EV_ABS
              /\ last'.ev.code \in { ABS_X, ABS_Y, ABS_MT_POSITION_X,
                                     ABS_MT_POSITION_Y }))
            => last'.flushed.kind = device[d].pending_event

C24_FlushUnlessPosition == [][C24_FlushedUnlessPosition]_vars

(* A position recorded under a pending relative motion is not reported    *)
(* by the frame: SYN_REPORT emits the relative motion alone.              *)
C24_PositionUnreported ==
    /\ last.op = "process" /\ last.ev.type = EV_SYN
    /\ last.flushed.kind = "EVDEV_RELATIVE_MOTION"
    /\ device[last.dev].abs.x # 0
    /\ \A i \in 1 .. Len(emitted) : emitted[i].kind = "pointer_motion"

(* ---------------------------------------------------------------------- *)
(* C25. While a device processes events, for every KEY- or BUTTON-class   *)
(* code the bit of key_mask is set iff its key_count is positive, and a   *)
(* press of a code whose bit is clear emits a PRESSED notification.       *)
(* ---------------------------------------------------------------------- *)
C25_MaskAgreesWithCount ==
    \A d \in DOMAIN device : \A c \in ClassCodes :
        device[d].listed =>
            (is_key_down(device[d], c) <=> get_key_down_count(device[d], c) > 0)

C25_PressOfUpKeyNotified ==
    \A d \in DOMAIN device : \A c \in ClassCodes :
        ( /\ last'.op = "process" /\ last'.dev = d
          /\ last'.ev = [type |-> EV_KEY, code |-> c, value |-> 1]
          /\ ~is_key_down(device[d], c) )
        => KeyNotes(emitted', c, LIBINPUT_KEY_STATE_PRESSED) = 1

C25_MaskIffCount == []C25_MaskAgreesWithCount /\ [][C25_PressOfUpKeyNotified]_vars

(* One direction: a set bit has a positive count.                         *)
C25_MaskImpliesCount ==
    \A d \in DOMAIN device : \A c \in ClassCodes :
        (device[d].listed /\ is_key_down(device[d], c))
            => get_key_down_count(device[d], c) > 0

(* ---------------------------------------------------------------------- *)
(* C26. After evdev_device_remove the slot map has no bit set on behalf   *)
(* of the removed device: its set bits are exactly the seat slots held by *)
(* the devices still on the seat.                                         *)
(* ---------------------------------------------------------------------- *)
HeldSeatSlots == foreign \cup { SeatSlot(device[dc[1]], dc[2]) : dc \in Held }

C26_SlotsReleasedAtRemoval == slot_map = HeldSeatSlots

(* The same while no device has been removed.                             *)
C26_MapBeforeRemoval ==
    (\A d \in DOMAIN device : device[d].listed) => slot_map = HeldSeatSlots

(* Removal leaves the slot map as it was, and emits no touch-up.          *)
C26_RemovalKeepsMap ==
    [][last'.op = "remove" => (slot_map' = slot_map /\ ~HasTouch(emitted'))]_vars

(* ---------------------------------------------------------------------- *)
(* C27. For each device and seat slot k the touch notifications carrying  *)
(* k form (touch-down, touch-motion*, touch-up)*. By induction on the     *)
(* contact that holds k: a touch-down for k is emitted when no contact of *)
(* the device holds k and gives k to its contact; a touch-motion for k is *)
(* emitted for the contact that holds k and leaves it there; a touch-up   *)
(* for k is emitted for the contact that holds k and takes it away; and a *)
(* contact's seat slot changes in no other step.                          *)
(* ---------------------------------------------------------------------- *)
TouchNotes(out) == SelectSeq(out, LAMBDA n : n.kind \in TouchKinds)

C27_Step ==
    \A d \in DOMAIN device :
        (last'.op = "process" /\ last'.dev = d) =>
            LET notes == TouchNotes(emitted')
            IN  /\ Len(notes) <= 1
                /\ \A i \in 1 .. Len(notes) :
                     LET c == notes[i].slot
                         k == notes[i].seat_slot
                     IN  /\ c \in Contacts(device[d])
                         /\ k \in 0 .. SlotMapBits - 1
                         /\ notes[i].kind = "touch_down" =>
                              /\ \A c2 \in Contacts(device[d]) :
                                   SeatSlot(device[d], c2) # k
                              /\ SeatSlot(device'[d], c) = k
                         /\ notes[i].kind = "touch_motion" =>
                              /\ SeatSlot(device[d], c) = k
                              /\ SeatSlot(device'[d], c) = k
                         /\ notes[i].kind = "touch_up" =>
                              /\ SeatSlot(device[d], c) = k
                              /\ SeatSlot(device'[d], c) = -1
                /\ \A c \in Contacts(device[d]) :
                     SeatSlot(device'[d], c) # SeatSlot(device[d], c) =>
                        \E i \in 1 .. Len(notes) :
                           /\ notes[i].slot = c
                           /\ \/ /\ notes[i].kind = "touch_down"
                                 /\ SeatSlot(device[d], c) = -1
                              \/ /\ notes[i].kind = "touch_up"
                                 /\ SeatSlot(device'[d], c) = -1

(* Steps on other devices and removals leave a device's seat slots alone  *)
(* and emit no touch notification.                                        *)
C27_Frame ==
    /\ \A d \in DOMAIN device :
         (last'.dev # d \/ last'.op # "process") =>
             \A c \in Contacts(device[d]) :
                 SeatSlot(device'[d], c) = SeatSlot(device[d], c)
    /\ last'.op # "process" => TouchNotes(emitted') = << >>

C27_DownMotionUp == [][C27_Step /\ C27_Frame]_vars

(* A touch-up on a seat slot of a seat where other devices hold slots.    *)
C27_Witness ==
    /\ last.op = "process"
    /\ Len(emitted) >= 1
    /\ emitted[1].kind = "touch_up"
    /\ emitted[1].seat_slot \in { 1, 3 }
    /\ SeatSlot(device[last.dev], emitted[1].slot) = -1
    /\ \E d \in DOMAIN device : \E c \in Contacts(device[d]) :
          SeatSlot(device[d], c) # -1

(* ---------------------------------------------------------------------- *)
(* C28. The relative accumulator is (0, 0) whenever the pending event is  *)
(* not RELATIVE_MOTION; a pending RELATIVE_MOTION is replaced by another  *)
(* pending kind only in a step that flushes it; and, the filter being the *)
(* identity, each step keeps the account: what was accumulated plus the   *)
(* REL_X (REL_Y) value received equals the dx (dy) emitted plus what is   *)
(* accumulated after, so the sums over all steps agree.                   *)
(* ---------------------------------------------------------------------- *)
C28_ZeroUnlessPending ==
    \A d \in DOMAIN device :
        device[d].pending_event # "EVDEV_RELATIVE_MOTION"
            => device[d].rel = [dx |-> 0, dy |-> 0]

RECURSIVE SumOf(_, _)
SumOf(out, axis) ==
    IF out = << >> THEN 0
    ELSE (IF Head(out).kind = "pointer_motion" THEN Head(out)[axis] ELSE 0)
         + SumOf(Tail(out), axis)

Received(e, code) == IF e.type = EV_REL /\ e.code = code THEN e.value ELSE 0

C28_Account ==
    \A d \in DOMAIN device :
        /\ (last'.op = "process" /\ last'.dev = d) =>
             /\ device[d].rel.dx + Received(last'.ev, REL_X)
                  = SumOf(emitted', "dx") + device'[d].rel.dx
             /\ device[d].rel.dy + Received(last'.ev, REL_Y)
                  = SumOf(emitted', "dy") + device'[d].rel.dy
             /\ ( /\ device[d].pending_event = "EVDEV_RELATIVE_MOTION"
                  /\ device'[d].pending_event # "EVDEV_RELATIVE_MOTION" )
                => last'.flushed.kind = "EVDEV_RELATIVE_MOTION"
        /\ (last'.op # "process" \/ last'.dev # d) =>
             /\ device'[d].rel = device[d].rel
             /\ device'[d].pending_event = device[d].pending_event
             /\ SumOf(emitted', "dx") = 0 /\ SumOf(emitted', "dy") = 0

C28_RelativeAccount == []C28_ZeroUnlessPending /\ [][C28_Account]_vars

(* A touch went down on a device with a relative motion pending: the      *)
(* motion was flushed first and the accumulator is empty.                 *)
C28_Witness ==
    /\ last.op = "process"
    /\ last.flushed.kind = "EVDEV_RELATIVE_MOTION"
    /\ device[last.dev].pending_event \in DownKinds
    /\ SumOf(emitted, "dx") # 0
    /\ device[last.dev].rel.dx = 0

(* ---------------------------------------------------------------------- *)
(* C29. A device without the TOUCH capability never emits touch-down,     *)
(* touch-motion, touch-up or touch-frame notifications, never changes the *)
(* seat slot map and keeps the seat slot of every contact at -1, whatever *)
(* raw events it is sent; and processing an event never changes the       *)
(* capabilities of a device.                                              *)
(* ---------------------------------------------------------------------- *)
Touchless(dev) == EVDEV_DEVICE_TOUCH \notin dev.seat_caps

C29_NoSeatSlots ==
    \A d \in DOMAIN device :
        Touchless(device[d]) =>
            \A c \in Contacts(device[d]) : SeatSlot(device[d], c) = -1

C29_Step ==
    last'.op = "process" =>
        /\ device'[last'.dev].seat_caps = device[last'.dev].seat_caps
        /\ Touchless(device[last'.dev]) =>
              /\ ~HasTouch(emitted')
              /\ Frames(emitted') = 0
              /\ slot_map' = slot_map

C29_NoTouchWithoutCapability == []C29_NoSeatSlots /\ [][C29_Step]_vars

(* The multi-touch screen with a button flushed a touch that went down in *)
(* its second slot, at the end of the frame.                              *)
C29_Witness ==
    /\ last.op = "process"
    /\ last.ev.type = EV_SYN
    /\ Touchless(device[last.dev])
    /\ EVDEV_DEVICE_POINTER \in device[last.dev].seat_caps
    /\ last.flushed = [kind |-> "EVDEV_ABSOLUTE_MT_DOWN", slot |-> 1]

(* The tablet flushed a touch that went down, on a seat with free slots.  *)
C29_WitnessTablet ==
    /\ last.op = "process"
    /\ Touchless(device[last.dev])
    /\ last.flushed.kind = "EVDEV_ABSOLUTE_TOUCH_DOWN"
    /\ slot_map = ScarceMap

(* ---------------------------------------------------------------------- *)
(* C30. On a multi-touch device every touch-down, touch-motion and        *)
(* touch-up notification carries the slot that was current when the raw   *)
(* events that caused it arrived. Step by step: the touch notifications   *)
(* of a step carry the slot the cursor was on before the step, which is   *)
(* the slot the flush acted on; the cursor moves only in a step for       *)
(* ABS_MT_SLOT, to the value of the event and with nothing left pending;  *)
(* so whatever is pending was accumulated under the cursor as it stands.  *)
(* ---------------------------------------------------------------------- *)
MtKinds == { "EVDEV_ABSOLUTE_MT_DOWN", "EVDEV_ABSOLUTE_MT_MOTION",
             "EVDEV_ABSOLUTE_MT_UP" }

C30_Step ==
    \A d \in DOMAIN device :
        device[d].is_mt =>
            /\ (last'.op = "process" /\ last'.dev = d) =>
                 /\ \A i \in 1 .. Len(emitted') :
                       emitted'[i].kind \in TouchKinds
                           => /\ emitted'[i].slot = device[d].mt.slot
                              /\ last'.flushed.kind \in MtKinds
                              /\ last'.flushed.slot = device[d].mt.slot
                 /\ device'[d].mt.slot # device[d].mt.slot
                       => /\ last'.ev.type = EV_ABS
                          /\ last'.ev.code = ABS_MT_SLOT
                          /\ device'[d].mt.slot = last'.ev.value
                          /\ device'[d].pending_event = "EVDEV_NONE"
                 /\ ( /\ device[d].pending_event \in MtKinds
                      /\ device'[d].pending_event \in MtKinds
                      /\ last'.flushed.kind = "EVDEV_NONE" )
                    => device'[d].mt.slot = device[d].mt.slot
            /\ (last'.op # "process" \/ last'.dev # d) =>
                 /\ device'[d].mt.slot = device[d].mt.slot
                 /\ device'[d].pending_event = device[d].pending_event
            /\ last'.op # "process" => ~HasTouch(emitted')

C30_SlotOfNotification == [][C30_Step]_vars

(* The cursor moved from the first slot to the second with a touch-down   *)
(* pending: the touch-down was notified for the first slot.               *)
C30_Witness ==
    /\ last.op = "process"
    /\ last.ev.code = ABS_MT_SLOT
    /\ device[last.dev].is_mt
    /\ device[last.dev].mt.slot = 1
    /\ Len(emitted) = 1
    /\ emitted[1].kind = "touch_down"
    /\ emitted[1].slot = 0

====
